---- MODULE Spec2Model ----
(***************************************************************************)
(* Main SHM / Ext SHM coordination substrate of sysrepo (src/shm_main.c).  *)
(*                                                                         *)
(* Ext SHM is modelled as a heap of typed objects addressed by their byte  *)
(* offset: ext.mem maps the start offset of every object to its contents, *)
(* ext.size is the size of the region and ext.wasted is the counter kept   *)
(* in the first machine word.  Main SHM is the header (anchors, counters,  *)
(* lock) followed by the sequence of module records.                       *)
(***************************************************************************)
EXTENDS Integers, Sequences, FiniteSets, TLC

VARIABLES main, ext, lydmods, last, lk, rec, rp

vars == <<main, ext, lydmods, last, lk, rec, rp>>

(***************************************************************************)
(* Bounds of the model.                                                    *)
(***************************************************************************)
MaxCtx == 2
MaxEvpipe == 2
MaxRpc == 2
MaxRpcSub == 2
MaxExtSize == 114
MaxMods == 2
MaxAddSize == 70
MaxExtObjs == 12
MaxModSub == 2
MaxDefragSize == 84
MaxDefragObjs == 5
MaxDefragWasted == 0
MaxRecoverSize == 260
MaxRecoverObjs == 9
MaxRcount == 2
MaxCatalogMods == 3
MaxCatalogSize == 160
MaxConnSize == 300
MaxConnObjs == 4
MaxBulkSub == 3
MaxBulkSize == 270
MaxBulkObjs == 8
MaxInstallSize == 4000
MaxInstallObjs == 8
MaxCompactSize == 400
MaxCompactObjs == 14

(***************************************************************************)
(* sizeof of the types kept in Ext SHM (LP64).                             *)
(***************************************************************************)
Sizeof ==
    [size_t |-> 8, off_t |-> 8, uint32_t |-> 4, sr_conn_state_t |-> 40, sr_rpc_t |-> 24,
     sr_rpc_sub_t |-> 24, sr_mod_data_dep_t |-> 24, sr_mod_op_dep_t |-> 40,
     sr_mod_change_sub_t |-> 24, sr_mod_oper_sub_t |-> 16, sr_mod_notif_sub_t |-> 4]

Ctxs == 1 .. MaxCtx
ModNames == <<"a", "bb", "c">>
OpPaths == {"/r", "/op"}
XPaths == {"/x", "/yy"}
Priorities == {0, 1}

(***************************************************************************)
(* Helpers over the state record s = [main, ext].                          *)
(***************************************************************************)
S == [main |-> main, ext |-> ext]

sr_strshmlen(str) == Len(str) + 1

RECURSIVE SumSeq(_)
SumSeq(q) == IF q = <<>> THEN 0 ELSE Head(q) + SumSeq(Tail(q))

StrObj(str) == [t |-> "str", v |-> str]
ArrObj(type, items) == [t |-> type, v |-> items]

ObjSize(o) == IF o.t = "str" THEN sr_strshmlen(o.v) ELSE Len(o.v) * Sizeof[o.t]

Min(a, b) == IF a < b THEN a ELSE b

(* the first n items of a sequence (memcpy of n records) *)
Take(q, n) == SubSeq(q, 1, Min(n, Len(q)))

(* the items of the array at offset off; offset 0 is "absent" *)
Arr(e, off) == IF off \in DOMAIN e.mem THEN e.mem[off].v ELSE <<>>

(* the zero-terminated string at offset off *)
Str(e, off) == IF off \in DOMAIN e.mem THEN e.mem[off].v ELSE ""

(* sr_shm_remap(shm, new_size) with a non-zero size: truncate and map *)
sr_shm_remap(e, new_size) == [e EXCEPT !.size = new_size]

(* write an object at an offset of the mapped region *)
Store(e, off, obj) == [e EXCEPT !.mem = (off :> obj) @@ @]

AddWasted(e, n) == [e EXCEPT !.wasted = @ + n]

SetArr(e, off, items) == [e EXCEPT !.mem[off].v = items]

SR_DS_COUNT == 2
DsSet == 1 .. SR_DS_COUNT

(***************************************************************************)
(* Live objects: everything reachable from the anchors of Main SHM.        *)
(***************************************************************************)
(* every offset stored in Main SHM or in a record an anchor reaches, with  *)
(* the type and the item count its owner records ("str": a string)         *)
Refs(s) ==
    LET e == s.ext
        R(off, t, n) == IF off = 0 THEN {} ELSE {[off |-> off, t |-> t, n |-> n]}
        Items(off, t, n) ==
            IF off \in DOMAIN e.mem /\ e.mem[off].t = t THEN Take(e.mem[off].v, n) ELSE <<>>
        (* an array of records with an xpath *)
        XR(off, t, n) ==
            R(off, t, n) \cup UNION {R(Items(off, t, n)[i].xpath, "str", 0) : i \in DOMAIN Items(off, t, n)}
        (* an array of offsets of strings *)
        SR(off, n) ==
            R(off, "off_t", n)
                \cup UNION {R(Items(off, "off_t", n)[i], "str", 0) : i \in DOMAIN Items(off, "off_t", n)}
        DR(off, n) ==
            XR(off, "sr_mod_data_dep_t", n)
                \cup UNION {R(Items(off, "sr_mod_data_dep_t", n)[i].module, "str", 0) :
                                i \in DOMAIN Items(off, "sr_mod_data_dep_t", n)}
        OpR(d) == DR(d.in_deps, d.in_dep_count) \cup DR(d.out_deps, d.out_dep_count)
        ModR(m) ==
            R(m.name, "str", 0) \cup SR(m.features, m.feat_count) \cup DR(m.data_deps, m.data_dep_count)
                \cup SR(m.inv_data_deps, m.inv_data_dep_count)
                \cup XR(m.op_deps, "sr_mod_op_dep_t", m.op_dep_count)
                \cup UNION {OpR(Items(m.op_deps, "sr_mod_op_dep_t", m.op_dep_count)[i]) :
                                i \in DOMAIN Items(m.op_deps, "sr_mod_op_dep_t", m.op_dep_count)}
                \cup UNION {XR(m.change_sub[ds].subs, "sr_mod_change_sub_t", m.change_sub[ds].sub_count) :
                                ds \in DsSet}
                \cup XR(m.oper_subs, "sr_mod_oper_sub_t", m.oper_sub_count)
                \cup R(m.notif_subs, "sr_mod_notif_sub_t", m.notif_sub_count)
        Cs == Items(s.main.conns, "sr_conn_state_t", s.main.conn_count)
        Rs == Items(s.main.rpc_subs, "sr_rpc_t", s.main.rpc_sub_count)
    IN R(s.main.conns, "sr_conn_state_t", s.main.conn_count)
           \cup UNION {R(Cs[i].evpipes, "uint32_t", Cs[i].evpipe_count) : i \in DOMAIN Cs}
           \cup R(s.main.rpc_subs, "sr_rpc_t", s.main.rpc_sub_count)
           \cup UNION {R(Rs[i].op_path, "str", 0) \cup XR(Rs[i].subs, "sr_rpc_sub_t", Rs[i].sub_count) :
                           i \in DOMAIN Rs}
           \cup UNION {ModR(s.main.mods[i]) : i \in DOMAIN s.main.mods}

(* the live objects: <<offset, object>>, each array with the items its     *)
(* owner counts                                                            *)
LiveSet(s) ==
    {<<r.off, IF r.t = "str" THEN s.ext.mem[r.off] ELSE ArrObj(r.t, Take(s.ext.mem[r.off].v, r.n))>> :
        r \in {x \in Refs(s) : x.off \in DOMAIN s.ext.mem}}

RECURSIVE SumSizes(_)
SumSizes(P) ==
    IF P = {} THEN 0
    ELSE LET p == CHOOSE x \in P : TRUE IN ObjSize(p[2]) + SumSizes(P \ {p})

LiveBytes(s) == SumSizes(LiveSet(s))

(* Bytes that no anchor reaches are never read again: the state keeps the  *)
(* live objects only, each array cut to the count its anchor records.      *)
Normalize(s) ==
    LET P == LiveSet(s)
    IN [s EXCEPT !.ext.mem = [o \in {p[1] : p \in P} |-> (CHOOSE p \in P : p[1] = o)[2]]]

(***************************************************************************)
(* Connection state.                                                       *)
(***************************************************************************)
Conns(s) == Take(Arr(s.ext, s.main.conns), s.main.conn_count)

(* index of the first record matching (conn, pid), 0 when there is none *)
sr_shmmain_state_find_conn(s, conn, pid) ==
    LET hits == {i \in 1 .. Len(Conns(s)) : Conns(s)[i].conn_ctx = conn /\ Conns(s)[i].pid = pid}
    IN IF hits = {} THEN 0 ELSE CHOOSE i \in hits : \A j \in hits : i <= j

(* the new record: conn_ctx, pid and the evpipe anchor are filled in, the  *)
(* lock summary is what the freshly extended (zeroed) region holds         *)
NewConnState(conn, pid) ==
    [conn_ctx |-> conn, pid |-> pid, evpipes |-> 0, evpipe_count |-> 0,
     lock_main |-> "NONE", main_rcount |-> 0]

(* the new record is put before the old ones *)
state_add_conn_Prepends(s, conn, pid) ==
    LET conn_state_off == s.ext.size
        cnt == s.main.conn_count
        new_ext_size == conn_state_off + (cnt + 1) * Sizeof.sr_conn_state_t
        e1 == sr_shm_remap(s.ext, new_ext_size)
        e2 == AddWasted(e1, cnt * Sizeof.sr_conn_state_t)
        e3 == Store(e2, conn_state_off,
                    ArrObj("sr_conn_state_t", <<NewConnState(conn, pid)>> \o Take(Arr(e2, s.main.conns), cnt)))
    IN [main |-> [s.main EXCEPT !.conns = conn_state_off, !.conn_count = cnt + 1], ext |-> e3]

sr_shmmain_state_add_conn(s, conn, pid) ==
    LET conn_state_off == s.ext.size
        cnt == s.main.conn_count
        new_ext_size == conn_state_off + (cnt + 1) * Sizeof.sr_conn_state_t
        e1 == sr_shm_remap(s.ext, new_ext_size)
        e2 == AddWasted(e1, cnt * Sizeof.sr_conn_state_t)
        e3 == Store(e2, conn_state_off,
                    ArrObj("sr_conn_state_t", Append(Take(Arr(e2, s.main.conns), cnt), NewConnState(conn, pid))))
    IN [main |-> [s.main EXCEPT !.conns = conn_state_off, !.conn_count = cnt + 1], ext |-> e3]

(* the record is dropped but the bytes of its evpipe array are not counted *)
state_del_conn_ForgetsEvpipes(s, conn, pid) ==
    LET i == sr_shmmain_state_find_conn(s, conn, pid)
        conn_s == Arr(s.ext, s.main.conns)
        cnt == s.main.conn_count - 1
        e1 == AddWasted(s.ext, Sizeof.sr_conn_state_t)
    IN IF i = 0 THEN s
       ELSE IF cnt = 0 THEN [main |-> [s.main EXCEPT !.conn_count = 0, !.conns = 0], ext |-> e1]
       ELSE IF i - 1 < cnt
            THEN [main |-> [s.main EXCEPT !.conn_count = cnt],
                  ext |-> SetArr(e1, s.main.conns, [conn_s EXCEPT ![i] = conn_s[cnt + 1]])]
       ELSE [main |-> [s.main EXCEPT !.conn_count = cnt], ext |-> e1]

(* the count is decremented but the last record is not moved into the slot *)
state_del_conn_DropsLast(s, conn, pid) ==
    LET i == sr_shmmain_state_find_conn(s, conn, pid)
        conn_s == Arr(s.ext, s.main.conns)
        cnt == s.main.conn_count - 1
        e1 == AddWasted(s.ext, conn_s[i].evpipe_count * Sizeof.uint32_t + Sizeof.sr_conn_state_t)
    IN IF i = 0 THEN s
       ELSE IF cnt = 0 THEN [main |-> [s.main EXCEPT !.conn_count = 0, !.conns = 0], ext |-> e1]
       ELSE [main |-> [s.main EXCEPT !.conn_count = cnt], ext |-> e1]

sr_shmmain_state_del_conn(s, conn, pid) ==
    LET i == sr_shmmain_state_find_conn(s, conn, pid)
        conn_s == Arr(s.ext, s.main.conns)
        cnt == s.main.conn_count - 1
        e1 == AddWasted(s.ext, conn_s[i].evpipe_count * Sizeof.uint32_t + Sizeof.sr_conn_state_t)
    IN IF i = 0 THEN s
       ELSE IF cnt = 0 THEN [main |-> [s.main EXCEPT !.conn_count = 0, !.conns = 0], ext |-> e1]
       ELSE IF i - 1 < cnt
            THEN [main |-> [s.main EXCEPT !.conn_count = cnt],
                  ext |-> SetArr(e1, s.main.conns, [conn_s EXCEPT ![i] = conn_s[cnt + 1]])]
       ELSE [main |-> [s.main EXCEPT !.conn_count = cnt], ext |-> e1]

(* Ext SHM is enlarged before the connection is looked up *)
state_add_evpipe_RemapsFirst(s, conn, pid, evpipe_num) ==
    LET i == sr_shmmain_state_find_conn(s, conn, pid)
        conn_s == Arr(s.ext, s.main.conns)
        evpipes_off == s.ext.size
        new_ext_size == evpipes_off + (conn_s[i].evpipe_count + 1) * Sizeof.uint32_t
        e1 == sr_shm_remap(s.ext, new_ext_size)
        e2 == AddWasted(e1, conn_s[i].evpipe_count * Sizeof.uint32_t)
        e3 == Store(e2, evpipes_off,
                    ArrObj("uint32_t", Append(Take(Arr(e2, conn_s[i].evpipes), conn_s[i].evpipe_count),
                                            evpipe_num)))
        e4 == SetArr(e3, s.main.conns,
                     [conn_s EXCEPT ![i].evpipes = evpipes_off, ![i].evpipe_count = @ + 1])
    IN IF i = 0
       THEN [s |-> [s EXCEPT !.ext = AddWasted(sr_shm_remap(@, @.size + Sizeof.uint32_t), Sizeof.uint32_t)],
             err |-> "NOT_FOUND"]
       ELSE [s |-> [main |-> s.main, ext |-> e4], err |-> "OK"]

(* result: the new state and whether an error was returned *)
sr_shmmain_state_add_evpipe(s, conn, pid, evpipe_num) ==
    LET i == sr_shmmain_state_find_conn(s, conn, pid)
        conn_s == Arr(s.ext, s.main.conns)
        evpipes_off == s.ext.size
        new_ext_size == evpipes_off + (conn_s[i].evpipe_count + 1) * Sizeof.uint32_t
        e1 == sr_shm_remap(s.ext, new_ext_size)
        e2 == AddWasted(e1, conn_s[i].evpipe_count * Sizeof.uint32_t)
        e3 == Store(e2, evpipes_off,
                    ArrObj("uint32_t", Append(Take(Arr(e2, conn_s[i].evpipes), conn_s[i].evpipe_count),
                                            evpipe_num)))
        e4 == SetArr(e3, s.main.conns,
                     [conn_s EXCEPT ![i].evpipes = evpipes_off, ![i].evpipe_count = @ + 1])
    IN IF i = 0 THEN [s |-> s, err |-> "NOT_FOUND"]
       ELSE [s |-> [main |-> s.main, ext |-> e4], err |-> "OK"]

(* the offset of the array stays in the record when its last item goes *)
state_del_evpipe_KeepsAnchor(s, conn, pid, evpipe_num) ==
    LET c == sr_shmmain_state_find_conn(s, conn, pid)
        conn_s == Arr(s.ext, s.main.conns)
        evpipes == Arr(s.ext, conn_s[c].evpipes)
        hits == {i \in 1 .. conn_s[c].evpipe_count : evpipes[i] = evpipe_num}
        i == CHOOSE x \in hits : \A y \in hits : x <= y
        cnt == conn_s[c].evpipe_count - 1
        e1 == AddWasted(s.ext, Sizeof.uint32_t)
    IN IF c = 0 THEN s
       ELSE IF hits = {} THEN s
       ELSE IF cnt # 0 /\ i - 1 < cnt
            THEN [s EXCEPT !.ext = SetArr(SetArr(e1, conn_s[c].evpipes,
                                                 [evpipes EXCEPT ![i] = evpipes[cnt + 1]]),
                                          s.main.conns, [conn_s EXCEPT ![c].evpipe_count = cnt])]
       ELSE [s EXCEPT !.ext = SetArr(e1, s.main.conns, [conn_s EXCEPT ![c].evpipe_count = cnt])]

sr_shmmain_state_del_evpipe(s, conn, pid, evpipe_num) ==
    LET c == sr_shmmain_state_find_conn(s, conn, pid)
        conn_s == Arr(s.ext, s.main.conns)
        evpipes == Arr(s.ext, conn_s[c].evpipes)
        hits == {i \in 1 .. conn_s[c].evpipe_count : evpipes[i] = evpipe_num}
        i == CHOOSE x \in hits : \A y \in hits : x <= y
        cnt == conn_s[c].evpipe_count - 1
        e1 == AddWasted(s.ext, Sizeof.uint32_t)
    IN IF c = 0 THEN s
       ELSE IF hits = {} THEN s
       ELSE IF cnt = 0
            THEN [s EXCEPT !.ext = SetArr(e1, s.main.conns,
                                          [conn_s EXCEPT ![c].evpipe_count = 0, ![c].evpipes = 0])]
       ELSE IF i - 1 < cnt
            THEN [s EXCEPT !.ext = SetArr(SetArr(e1, conn_s[c].evpipes,
                                                 [evpipes EXCEPT ![i] = evpipes[cnt + 1]]),
                                          s.main.conns, [conn_s EXCEPT ![c].evpipe_count = cnt])]
       ELSE [s EXCEPT !.ext = SetArr(e1, s.main.conns, [conn_s EXCEPT ![c].evpipe_count = cnt])]

(***************************************************************************)
(* RPCs and their subscriptions.                                           *)
(***************************************************************************)
Rpcs(s) == Take(Arr(s.ext, s.main.rpc_subs), s.main.rpc_sub_count)

(* index of the first RPC with the op_path (or the op_path offset), or 0 *)
sr_shmmain_find_rpc(s, op_path, op_path_off) ==
    LET hits == {i \in 1 .. Len(Rpcs(s)) :
                    \/ op_path_off # 0 /\ Rpcs(s)[i].op_path = op_path_off
                    \/ op_path # "" /\ Str(s.ext, Rpcs(s)[i].op_path) = op_path}
    IN IF hits = {} THEN 0 ELSE CHOOSE i \in hits : \A j \in hits : i <= j

sr_shmmain_add_rpc(s, op_path) ==
    LET cnt == s.main.rpc_sub_count
        rpc_subs_off == s.ext.size
        op_path_off == rpc_subs_off + (cnt + 1) * Sizeof.sr_rpc_t
        new_ext_size == op_path_off + sr_strshmlen(op_path)
        e1 == sr_shm_remap(s.ext, new_ext_size)
        e2 == AddWasted(e1, cnt * Sizeof.sr_rpc_t)
        e3 == Store(e2, rpc_subs_off,
                    ArrObj("sr_rpc_t", Append(Take(Arr(e2, s.main.rpc_subs), cnt),
                                         [op_path |-> op_path_off, subs |-> 0, sub_count |-> 0])))
        e4 == Store(e3, op_path_off, StrObj(op_path))
    IN [main |-> [s.main EXCEPT !.rpc_subs = rpc_subs_off, !.rpc_sub_count = cnt + 1], ext |-> e4]

(* the count is decremented but the last record is not moved into the slot *)
del_rpc_DropsLast(s, op_path, op_path_off) ==
    LET i == sr_shmmain_find_rpc(s, op_path, op_path_off)
        shm_rpc == Arr(s.ext, s.main.rpc_subs)
        cnt == s.main.rpc_sub_count - 1
        e1 == AddWasted(s.ext, Sizeof.sr_rpc_t + sr_strshmlen(Str(s.ext, shm_rpc[i].op_path)))
    IN IF i = 0 THEN [s |-> s, err |-> "INTERNAL"]
       ELSE IF cnt = 0
            THEN [s |-> [main |-> [s.main EXCEPT !.rpc_sub_count = 0, !.rpc_subs = 0], ext |-> e1],
                  err |-> "OK"]
       ELSE [s |-> [main |-> [s.main EXCEPT !.rpc_sub_count = cnt], ext |-> e1], err |-> "OK"]

sr_shmmain_del_rpc(s, op_path, op_path_off) ==
    LET i == sr_shmmain_find_rpc(s, op_path, op_path_off)
        shm_rpc == Arr(s.ext, s.main.rpc_subs)
        cnt == s.main.rpc_sub_count - 1
        e1 == AddWasted(s.ext, Sizeof.sr_rpc_t + sr_strshmlen(Str(s.ext, shm_rpc[i].op_path)))
    IN IF i = 0 THEN [s |-> s, err |-> "INTERNAL"]
       ELSE IF cnt = 0
            THEN [s |-> [main |-> [s.main EXCEPT !.rpc_sub_count = 0, !.rpc_subs = 0], ext |-> e1],
                  err |-> "OK"]
       ELSE IF i - 1 < cnt
            THEN [s |-> [main |-> [s.main EXCEPT !.rpc_sub_count = cnt],
                         ext |-> SetArr(e1, s.main.rpc_subs, [shm_rpc EXCEPT ![i] = shm_rpc[cnt + 1]])],
                  err |-> "OK"]
       ELSE [s |-> [main |-> [s.main EXCEPT !.rpc_sub_count = cnt], ext |-> e1], err |-> "OK"]

(* k: index of the RPC record in the RPC array (shm_rpc_off) *)
sr_shmmain_rpc_subscription_add(s, k, xpath, priority, sub_opts, evpipe_num) ==
    LET shm_rpc == Arr(s.ext, s.main.rpc_subs)
        cnt == shm_rpc[k].sub_count
        subs_off == s.ext.size
        xpath_off == subs_off + (cnt + 1) * Sizeof.sr_rpc_sub_t
        new_ext_size == xpath_off + sr_strshmlen(xpath)
        e1 == sr_shm_remap(s.ext, new_ext_size)
        e2 == AddWasted(e1, cnt * Sizeof.sr_rpc_sub_t)
        e3 == Store(e2, subs_off,
                    ArrObj("sr_rpc_sub_t", Append(Take(Arr(e2, shm_rpc[k].subs), cnt),
                                            [xpath |-> xpath_off, priority |-> priority,
                                             opts |-> sub_opts, evpipe_num |-> evpipe_num])))
        e4 == Store(e3, xpath_off, StrObj(xpath))
        e5 == SetArr(e4, s.main.rpc_subs, [shm_rpc EXCEPT ![k].subs = subs_off, ![k].sub_count = cnt + 1])
    IN [main |-> s.main, ext |-> e5]

RpcSubMatch(e, sub, i, q) ==
    IF q.all_evpipe THEN sub[i].evpipe_num = q.evpipe_num
    ELSE Str(e, sub[i].xpath) = q.xpath /\ sub[i].priority = q.priority

(* the for loop that looks for the subscription: the index at which it     *)
(* breaks, or count + 1; `jumped` enters the body at continue_loop without *)
(* testing the loop condition                                              *)
RECURSIVE RpcSubFind(_, _, _, _, _, _)
RpcSubFind(e, sub, count, i, q, jumped) ==
    IF ~jumped /\ i > count THEN count + 1
    ELSE IF RpcSubMatch(e, sub, i, q) THEN i
    ELSE RpcSubFind(e, sub, count, i + 1, q, FALSE)

(* r: the RPC record, sub: the memory of its subscription array *)
RECURSIVE RpcSubDelLoop(_, _, _, _, _, _, _)
RpcSubDelLoop(e, sub, r, i0, q, jumped, last_removed) ==
    LET i == RpcSubFind(e, sub, r.sub_count, i0, q, jumped)
        cnt == r.sub_count - 1
        e1 == AddWasted(e, Sizeof.sr_rpc_sub_t + sr_strshmlen(Str(e, sub[i].xpath)))
        r1 == IF cnt = 0 THEN [r EXCEPT !.sub_count = 0, !.subs = 0] ELSE [r EXCEPT !.sub_count = cnt]
        sub1 == IF cnt # 0 /\ i - 1 < cnt THEN [sub EXCEPT ![i] = sub[cnt + 1]] ELSE sub
        lr1 == IF cnt = 0 THEN 1 ELSE last_removed
    IN IF i = r.sub_count + 1
       THEN [e |-> e, sub |-> sub, r |-> r, last_removed |-> last_removed,
             err |-> IF q.all_evpipe THEN "OK" ELSE "INTERNAL"]
       ELSE IF q.all_evpipe THEN RpcSubDelLoop(e1, sub1, r1, i, q, TRUE, lr1)
       ELSE [e |-> e1, sub |-> sub1, r |-> r1, last_removed |-> lr1, err |-> "OK"]

(* the removal, but last_removed is left at the 0 it was set to on entry *)
rpc_subscription_del_NeverLast(s, k, xpath, priority, evpipe_num, all_evpipe) ==
    LET shm_rpc == Arr(s.ext, s.main.rpc_subs)
        q == [xpath |-> xpath, priority |-> priority, evpipe_num |-> evpipe_num,
              all_evpipe |-> all_evpipe]
        res == RpcSubDelLoop(s.ext, Arr(s.ext, shm_rpc[k].subs), shm_rpc[k], 1, q, FALSE, 0)
        e1 == IF shm_rpc[k].subs \in DOMAIN res.e.mem
              THEN SetArr(res.e, shm_rpc[k].subs, res.sub) ELSE res.e
        e2 == SetArr(e1, s.main.rpc_subs, [shm_rpc EXCEPT ![k] = res.r])
    IN [s |-> [main |-> s.main, ext |-> e2], err |-> res.err, last_removed |-> 0]

(* in bulk mode the function returns after the first removal *)
rpc_subscription_del_OnlyFirst(s, k, xpath, priority, evpipe_num, all_evpipe) ==
    LET shm_rpc == Arr(s.ext, s.main.rpc_subs)
        sub == Arr(s.ext, shm_rpc[k].subs)
        q == [xpath |-> xpath, priority |-> priority, evpipe_num |-> evpipe_num,
              all_evpipe |-> all_evpipe]
        i == RpcSubFind(s.ext, sub, shm_rpc[k].sub_count, 1, q, FALSE)
        q1 == IF all_evpipe /\ i <= shm_rpc[k].sub_count
              THEN [xpath |-> Str(s.ext, sub[i].xpath), priority |-> sub[i].priority,
                    evpipe_num |-> evpipe_num, all_evpipe |-> FALSE]
              ELSE q
        res == RpcSubDelLoop(s.ext, sub, shm_rpc[k], i, q1, FALSE, 0)
        e1 == IF shm_rpc[k].subs \in DOMAIN res.e.mem
              THEN SetArr(res.e, shm_rpc[k].subs, res.sub) ELSE res.e
        e2 == SetArr(e1, s.main.rpc_subs, [shm_rpc EXCEPT ![k] = res.r])
    IN [s |-> [main |-> s.main, ext |-> e2], err |-> res.err, last_removed |-> res.last_removed]

(* k: index of the RPC record (shm_rpc); result: state, error, last_removed *)
sr_shmmain_rpc_subscription_del(s, k, xpath, priority, evpipe_num, all_evpipe) ==
    LET shm_rpc == Arr(s.ext, s.main.rpc_subs)
        q == [xpath |-> xpath, priority |-> priority, evpipe_num |-> evpipe_num,
              all_evpipe |-> all_evpipe]
        res == RpcSubDelLoop(s.ext, Arr(s.ext, shm_rpc[k].subs), shm_rpc[k], 1, q, FALSE, 0)
        e1 == IF shm_rpc[k].subs \in DOMAIN res.e.mem
              THEN SetArr(res.e, shm_rpc[k].subs, res.sub) ELSE res.e
        e2 == SetArr(e1, s.main.rpc_subs, [shm_rpc EXCEPT ![k] = res.r])
    IN [s |-> [main |-> s.main, ext |-> e2], err |-> res.err, last_removed |-> res.last_removed]

(***************************************************************************)
(* Module catalog.  The tree (sr_mods) is a sequence of modules            *)
(*   [name, features, data_deps, inv_deps, op_deps]                        *)
(* a dependency is [kind: "module" | "inst-id", module, xpath] ("" when the *)
(* node is absent) and an op dependency [xpath, has_in, in, has_out, out]. *)
(***************************************************************************)

(* index of the first module record with the name (or the name offset), or 0 *)
sr_shmmain_find_module(s, name, name_off) ==
    LET hits == {i \in DOMAIN s.main.mods :
                    \/ name_off # 0 /\ s.main.mods[i].name = name_off
                    \/ name # "" /\ Str(s.ext, s.main.mods[i].name) = name}
    IN IF hits = {} THEN 0 ELSE CHOOSE i \in hits : \A j \in hits : i <= j

(* A cursor w = [e, cur, oob] writes at the end of the used part of Ext;   *)
(* oob records a write that ends past the mapped size.                     *)
sr_shmstrcpy(w, str) ==
    [w |-> [e |-> Store(w.e, w.cur, StrObj(str)), cur |-> w.cur + sr_strshmlen(str),
            oob |-> w.oob \/ w.cur + sr_strshmlen(str) > w.e.size],
     off |-> w.cur]

(* sr_shmcpy: nothing is written and offset 0 is returned for size 0 *)
sr_shmcpy(w, obj) ==
    IF ObjSize(obj) = 0 THEN [w |-> w, off |-> 0]
    ELSE [w |-> [e |-> Store(w.e, w.cur, obj), cur |-> w.cur + ObjSize(obj),
                 oob |-> w.oob \/ w.cur + ObjSize(obj) > w.e.size],
          off |-> w.cur]

SumOver(q, F(_)) == SumSeq([i \in DOMAIN q |-> F(q[i])])

sr_shmmain_ext_get_lydmods_size(sr_mods) ==
    LET DepSize(d) ==
            Sizeof.sr_mod_data_dep_t + (IF d.kind = "inst-id" /\ d.xpath # "" THEN sr_strshmlen(d.xpath) ELSE 0)
        OpDepSize(o) ==
            Sizeof.sr_mod_op_dep_t + sr_strshmlen(o.xpath) + SumOver(o.in, DepSize) + SumOver(o.out, DepSize)
        FeatSize(f) == Sizeof.off_t + sr_strshmlen(f)
        InvSize(n) == Sizeof.off_t
        ModSize(m) ==
            sr_strshmlen(m.name) + SumOver(m.features, FeatSize) + SumOver(m.data_deps, DepSize)
                + SumOver(m.inv_deps, InvSize) + SumOver(m.op_deps, OpDepSize)
    IN SumOver(sr_mods, ModSize)

(* the size taken by connection state, RPCs and the module subscriptions *)
sr_shmmain_ext_get_size_main_shm(s) ==
    LET e == s.ext
        XpLen(sub) == IF sub.xpath # 0 THEN sr_strshmlen(Str(e, sub.xpath)) ELSE 0
        ConnSz(c) == c.evpipe_count * Sizeof.uint32_t + Sizeof.sr_conn_state_t
        RpcSz(r) == sr_strshmlen(Str(e, r.op_path)) + SumOver(Take(Arr(e, r.subs), r.sub_count), XpLen)
                        + r.sub_count * Sizeof.sr_rpc_sub_t
        ChSz(cs) == SumOver(Take(Arr(e, cs.subs), cs.sub_count), XpLen) + cs.sub_count * Sizeof.sr_mod_change_sub_t
        ModSz(m) == SumOver(m.change_sub, ChSz)
                        + SumOver(Take(Arr(e, m.oper_subs), m.oper_sub_count), XpLen)
                        + m.oper_subs * Sizeof.sr_mod_oper_sub_t
                        + m.notif_subs * Sizeof.sr_mod_notif_sub_t
    IN SumOver(Conns(s), ConnSz) + SumOver(Rpcs(s), RpcSz) + s.main.rpc_sub_count * Sizeof.sr_rpc_t
           + SumOver(s.main.mods, ModSz)

(* memset(0) of a module record, ver = 1 *)
ZeroMod ==
    [name |-> 0, features |-> 0, feat_count |-> 0, data_deps |-> 0, data_dep_count |-> 0,
     inv_data_deps |-> 0, inv_data_dep_count |-> 0, op_deps |-> 0, op_dep_count |-> 0,
     change_sub |-> [ds \in DsSet |-> [subs |-> 0, sub_count |-> 0]],
     oper_subs |-> 0, oper_sub_count |-> 0, notif_subs |-> 0, notif_sub_count |-> 0]

(* `CHOOSE r \in {F(x) : x \in {e}} : TRUE` below is `LET x == e IN F(x)`  *)
(* with e evaluated once, however often F refers to x.                     *)

(* copy the strings of q one after another; result: cursor and offsets *)
RECURSIVE CopyStrings(_, _, _)
CopyStrings(w, q, offs) ==
    IF q = <<>> THEN [w |-> w, offs |-> offs]
    ELSE CHOOSE res \in {CopyStrings(r.w, Tail(q), Append(offs, r.off)) :
                            r \in {sr_shmstrcpy(w, Head(q))}} : TRUE

(* the items of the array at off become `items`, the rest stays as it was *)
Overlay(e, off, items) ==
    IF off = 0 THEN e
    ELSE SetArr(e, off, [i \in DOMAIN Arr(e, off) |-> IF i <= Len(items) THEN items[i] ELSE Arr(e, off)[i]])

(* one module of sr_shmmain_add_modules: name, then the feature array and  *)
(* the feature names; result: cursor and the module record                 *)
AddModuleFeatures(n, a, f, sr_mod) ==
    [w |-> [f.w EXCEPT !.e = Overlay(@, a.off, f.offs)],
     mod |-> [ZeroMod EXCEPT !.name = n.off, !.features = a.off, !.feat_count = Len(sr_mod.features)]]

AddModule(w, sr_mod) ==
    CHOOSE res \in
        {CHOOSE res1 \in
            {CHOOSE res2 \in {AddModuleFeatures(n, a, f, sr_mod) :
                                 f \in {CopyStrings(a.w, sr_mod.features, <<>>)}} : TRUE :
             a \in {sr_shmcpy(n.w, ArrObj("off_t", [i \in 1 .. Len(sr_mod.features) |-> 0]))}} : TRUE :
         n \in {sr_shmstrcpy(w, sr_mod.name)}} : TRUE

(* s.main.mods already holds a zeroed record for each new module; i is the *)
(* index of the record to fill; result: state and cursor                   *)
RECURSIVE sr_shmmain_add_modules(_, _, _, _)
sr_shmmain_add_modules(s, w, new_mods, i) ==
    IF new_mods = <<>> THEN [s |-> [s EXCEPT !.ext = w.e], w |-> w]
    ELSE CHOOSE res \in {sr_shmmain_add_modules([s EXCEPT !.main.mods[i] = r.mod], r.w,
                                                Tail(new_mods), i + 1) :
                            r \in {AddModule(w, Head(new_mods))}} : TRUE

ZeroDataDep == [type |-> "REF", module |-> 0, xpath |-> 0]

ZeroOpDep == [xpath |-> 0, in_deps |-> 0, in_dep_count |-> 0, out_deps |-> 0, out_dep_count |-> 0]

(* one item of sr_shmmain_fill_data_deps: ref is the index of the module   *)
(* the dependency names (0: none), x the copied xpath                      *)
FillDataDep(s, d, ref, x) ==
    [type |-> IF d.kind = "module" THEN "REF" ELSE "INSTID",
     module |-> IF ref = 0 THEN 0 ELSE s.main.mods[ref].name,
     xpath |-> x.off]

(* sr_shmmain_fill_data_deps: fills the items one by one; s gives the      *)
(* module records for the name look-up; result: cursor, items, error       *)
RECURSIVE sr_shmmain_fill_data_deps(_, _, _, _)
sr_shmmain_fill_data_deps(s, w, deps, items) ==
    IF deps = <<>> THEN [w |-> w, items |-> items, err |-> "OK"]
    ELSE CHOOSE res \in
            {CHOOSE res1 \in
                {IF Head(deps).module # "" /\ ref = 0
                 THEN [w |-> x.w, items |-> items, err |-> "INTERNAL"]
                 ELSE sr_shmmain_fill_data_deps(s, x.w, Tail(deps),
                                                Append(items, FillDataDep(s, Head(deps), ref, x))) :
                 ref \in {IF Head(deps).module = "" THEN 0
                          ELSE sr_shmmain_find_module([s EXCEPT !.ext = x.w.e], Head(deps).module, 0)}} : TRUE :
             x \in {IF Head(deps).kind = "inst-id" /\ Head(deps).xpath # ""
                    THEN sr_shmstrcpy(w, Head(deps).xpath)
                    ELSE [w |-> w, off |-> 0]}} : TRUE

(* the array is copied (allocated), then filled; result: cursor, offset of *)
(* the array, error                                                        *)
AddDataDepArray(s, w, deps) ==
    CHOOSE res \in
        {CHOOSE res1 \in {[w |-> [f.w EXCEPT !.e = Overlay(@, a.off, f.items)], off |-> a.off,
                           err |-> f.err] :
                          f \in {sr_shmmain_fill_data_deps(s, a.w, deps, <<>>)}} : TRUE :
         a \in {sr_shmcpy(w, ArrObj("sr_mod_data_dep_t", [i \in 1 .. Len(deps) |-> ZeroDataDep]))}} : TRUE

NoDataDepArray(w, err) == [w |-> w, off |-> 0, err |-> err]

OpDepItem(o, x, in, out) ==
    [xpath |-> x.off,
     in_deps |-> in.off, in_dep_count |-> IF o.has_in THEN Len(o.in) ELSE 0,
     out_deps |-> out.off, out_dep_count |-> IF o.has_out /\ in.err = "OK" THEN Len(o.out) ELSE 0]

(* the op dependencies of one module, in order: xpath, input, output;      *)
(* result: cursor, items, error                                            *)
RECURSIVE AddOpDeps(_, _, _, _)
AddOpDeps(s, w, ops, items) ==
    IF ops = <<>> THEN [w |-> w, items |-> items, err |-> "OK"]
    ELSE CHOOSE res \in
            {CHOOSE res1 \in
                {CHOOSE res2 \in
                    {IF out.err # "OK"
                     THEN [w |-> out.w, items |-> Append(items, OpDepItem(Head(ops), x, in, out)),
                           err |-> out.err]
                     ELSE AddOpDeps(s, out.w, Tail(ops),
                                    Append(items, OpDepItem(Head(ops), x, in, out))) :
                     out \in {IF Head(ops).has_out /\ in.err = "OK"
                              THEN AddDataDepArray(s, in.w, Head(ops).out)
                              ELSE NoDataDepArray(in.w, in.err)}} : TRUE :
                 in \in {IF Head(ops).has_in THEN AddDataDepArray(s, x.w, Head(ops).in)
                         ELSE NoDataDepArray(x.w, "OK")}} : TRUE :
             x \in {sr_shmstrcpy(w, Head(ops).xpath)}} : TRUE

(* the inverse dependencies are left as allocated *)
FillInvDeps_LeavesZero(s, names, items) == [items |-> [k \in 1 .. Len(names) |-> 0], err |-> "OK"]

(* the inverse dependencies filled one by one; an unknown module stops it *)
RECURSIVE FillInvDeps(_, _, _)
FillInvDeps(s, names, items) ==
    IF names = <<>> THEN [items |-> items, err |-> "OK"]
    ELSE CHOOSE res \in
            {IF ref = 0 THEN [items |-> items, err |-> "INTERNAL"]
             ELSE FillInvDeps(s, Tail(names), Append(items, s.main.mods[ref].name)) :
             ref \in {sr_shmmain_find_module(s, Head(names), 0)}} : TRUE

(* the three arrays of module i are allocated one after another *)
AllocModuleDeps(s, w, sr_mod, i) ==
    CHOOSE res \in
        {CHOOSE res1 \in
            {CHOOSE res2 \in
                {[s |-> [s EXCEPT !.main.mods[i].data_deps = a1.off,
                                  !.main.mods[i].data_dep_count = Len(sr_mod.data_deps),
                                  !.main.mods[i].inv_data_deps = a2.off,
                                  !.main.mods[i].inv_data_dep_count = Len(sr_mod.inv_deps),
                                  !.main.mods[i].op_deps = a3.off,
                                  !.main.mods[i].op_dep_count = Len(sr_mod.op_deps),
                                  !.ext = a3.w.e],
                  w |-> a3.w] :
                 a3 \in {sr_shmcpy(a2.w, ArrObj("sr_mod_op_dep_t", [k \in 1 .. Len(sr_mod.op_deps) |-> ZeroOpDep]))}} : TRUE :
             a2 \in {sr_shmcpy(a1.w, ArrObj("off_t", [k \in 1 .. Len(sr_mod.inv_deps) |-> 0]))}} : TRUE :
         a1 \in {sr_shmcpy(w, ArrObj("sr_mod_data_dep_t", [k \in 1 .. Len(sr_mod.data_deps) |-> ZeroDataDep]))}} : TRUE

(* what a filling step leaves: the items written over the array at off *)
Filled(s, f, off) ==
    [s |-> [s EXCEPT !.ext = Overlay(f.w.e, off, f.items)],
     w |-> [f.w EXCEPT !.e = Overlay(f.w.e, off, f.items)],
     err |-> f.err]

(* the arrays of module i are filled in the order of the tree: data        *)
(* dependencies, inverse dependencies, op dependencies                     *)
FillModuleDeps(s, w, sr_mod, i) ==
    CHOOSE res \in
        {IF r1.err # "OK" THEN r1
         ELSE CHOOSE res1 \in
                {IF r2.err # "OK" THEN r2
                 ELSE Filled(r2.s, AddOpDeps(r2.s, r2.w, sr_mod.op_deps, <<>>), r2.s.main.mods[i].op_deps) :
                 r2 \in {Filled(r1.s, [w |-> r1.w] @@ FillInvDeps(r1.s, sr_mod.inv_deps, <<>>),
                                r1.s.main.mods[i].inv_data_deps)}} : TRUE :
         r1 \in {Filled(s, sr_shmmain_fill_data_deps(s, w, sr_mod.data_deps, <<>>),
                        s.main.mods[i].data_deps)}} : TRUE

(* the modules of the tree, one record of Main SHM each, starting at i *)
RECURSIVE sr_shmmain_add_modules_deps(_, _, _, _)
sr_shmmain_add_modules_deps(s, w, sr_mods, i) ==
    IF sr_mods = <<>> THEN [s |-> s, w |-> w, err |-> "OK"]
    ELSE CHOOSE res \in
            {CHOOSE res1 \in
                {IF r.err # "OK" THEN r
                 ELSE sr_shmmain_add_modules_deps(r.s, r.w, Tail(sr_mods), i + 1) :
                 r \in {FillModuleDeps(a.s, a.w, Head(sr_mods), i)}} : TRUE :
             a \in {AllocModuleDeps(s, w, Head(sr_mods), i)}} : TRUE

(* wasted bytes of the dependencies of one module record *)
ModDepsBytes(e, m) ==
    LET XpLen(d) == IF d.xpath # 0 THEN sr_strshmlen(Str(e, d.xpath)) ELSE 0
        DepsSz(off, n) == SumOver(Take(Arr(e, off), n), XpLen) + n * Sizeof.sr_mod_data_dep_t
        OpSz(o) == XpLen(o) + DepsSz(o.in_deps, o.in_dep_count) + DepsSz(o.out_deps, o.out_dep_count)
    IN DepsSz(m.data_deps, m.data_dep_count) + m.inv_data_dep_count * Sizeof.off_t
           + SumOver(Take(Arr(e, m.op_deps), m.op_dep_count), OpSz) + m.op_dep_count * Sizeof.sr_mod_op_dep_t

ClearModDeps(m) ==
    [m EXCEPT !.data_deps = 0, !.data_dep_count = 0, !.inv_data_deps = 0, !.inv_data_dep_count = 0,
              !.op_deps = 0, !.op_dep_count = 0]

(* the inverse dependency arrays are cleared but not counted as wasted *)
del_modules_deps_SkipsInverse(s) ==
    LET Bytes(m) == ModDepsBytes(s.ext, m) - m.inv_data_dep_count * Sizeof.off_t
    IN [main |-> [s.main EXCEPT !.mods = [i \in DOMAIN s.main.mods |-> ClearModDeps(s.main.mods[i])]],
        ext |-> AddWasted(s.ext, SumOver(s.main.mods, Bytes))]

(* all the modules, from the first record to the end of Main SHM *)
sr_shmmain_del_modules_deps(s) ==
    LET Bytes(m) == ModDepsBytes(s.ext, m)
    IN [main |-> [s.main EXCEPT !.mods = [i \in DOMAIN s.main.mods |-> ClearModDeps(s.main.mods[i])]],
        ext |-> AddWasted(s.ext, SumOver(s.main.mods, Bytes))]

(* the end of sr_shmmain_add: the written bytes must end at the new size *)
AddCheck(r, new_ext_size) ==
    IF r.err # "OK" THEN [s |-> r.s, err |-> r.err, oob |-> r.w.oob]
    ELSE IF r.w.cur # new_ext_size + r.s.ext.wasted THEN [s |-> r.s, err |-> "INTERNAL", oob |-> r.w.oob]
    ELSE [s |-> r.s, err |-> "OK", oob |-> r.w.oob]

(* after the first remap: module names and features are added, the old     *)
(* dependencies become wasted, Ext is remapped again and all the           *)
(* dependencies are added                                                  *)
AddRemapped(s, sr_mods, main_end, ext_end, new_ext_size) ==
    CHOOSE res \in
        {CHOOSE res1 \in
            {CHOOSE res2 \in
                {AddCheck(sr_shmmain_add_modules_deps(
                              s5, [e |-> s5.ext, cur |-> r3.w.cur, oob |-> r3.w.oob], sr_mods, 1),
                          new_ext_size) :
                 s5 \in {[s4 EXCEPT !.ext = sr_shm_remap(@, new_ext_size + s4.ext.wasted)]}} : TRUE :
             s4 \in {sr_shmmain_del_modules_deps(r3.s)}} : TRUE :
         r3 \in {sr_shmmain_add_modules(s, [e |-> s.ext, cur |-> ext_end, oob |-> FALSE, out |-> 0],
                                        SubSeq(sr_mods, main_end + 1, Len(sr_mods)), main_end + 1)}} : TRUE

(* the new records are put before the old ones *)
sr_shmmain_add_Prepends(s, sr_mods, new_mod_count) ==
    LET r ==
        CHOOSE res \in
            {CHOOSE res1 \in
                {AddRemapped([s1 EXCEPT !.ext = sr_shm_remap(@, new_ext_size + s1.ext.wasted)],
                             sr_mods, Len(s.main.mods), s.ext.size, new_ext_size) :
                 new_ext_size \in {Sizeof.size_t + sr_shmmain_ext_get_size_main_shm(s1)
                                       + sr_shmmain_ext_get_lydmods_size(sr_mods)}} : TRUE :
             s1 \in {[s EXCEPT !.main.mods = @ \o [i \in 1 .. new_mod_count |-> ZeroMod]]}} : TRUE
        n == Len(s.main.mods)
    IN [r EXCEPT !.s.main.mods = SubSeq(@, n + 1, Len(@)) \o SubSeq(@, 1, n)]

(* sr_mods: the whole tree; its last new_mod_count modules are the new     *)
(* ones.  Result: state, error, whether a write went past the mapping      *)
sr_shmmain_add(s, sr_mods, new_mod_count) ==
    CHOOSE res \in
        {CHOOSE res1 \in
            {AddRemapped([s1 EXCEPT !.ext = sr_shm_remap(@, new_ext_size + s1.ext.wasted)],
                         sr_mods, Len(s.main.mods), s.ext.size, new_ext_size) :
             new_ext_size \in {Sizeof.size_t + sr_shmmain_ext_get_size_main_shm(s1)
                                   + sr_shmmain_ext_get_lydmods_size(sr_mods)}} : TRUE :
         s1 \in {[s EXCEPT !.main.mods = @ \o [i \in 1 .. new_mod_count |-> ZeroMod]]}} : TRUE

(***************************************************************************)
(* Subscriptions of a module (change per datastore, operational,           *)
(* notification): the arrays hang off the module record.                   *)
(***************************************************************************)
ModSub(m, kind, ds) ==
    CASE kind = "change" ->
            [off |-> m.change_sub[ds].subs, n |-> m.change_sub[ds].sub_count, t |-> "sr_mod_change_sub_t"]
      [] kind = "oper" -> [off |-> m.oper_subs, n |-> m.oper_sub_count, t |-> "sr_mod_oper_sub_t"]
      [] kind = "notif" -> [off |-> m.notif_subs, n |-> m.notif_sub_count, t |-> "sr_mod_notif_sub_t"]

SetModSub(m, kind, ds, off, n) ==
    CASE kind = "change" -> [m EXCEPT !.change_sub[ds] = [subs |-> off, sub_count |-> n]]
      [] kind = "oper" -> [m EXCEPT !.oper_subs = off, !.oper_sub_count = n]
      [] kind = "notif" -> [m EXCEPT !.notif_subs = off, !.notif_sub_count = n]

(* the array moves to the end of Ext SHM with the new entry appended, the  *)
(* xpath (if any) follows it, the old array becomes wasted                 *)
sr_shmmod_subscription_add(s, i, kind, ds, xpath, priority, evpipe_num) ==
    LET a == ModSub(s.main.mods[i], kind, ds)
        subs_off == s.ext.size
        xpath_off == IF xpath = "" THEN 0 ELSE subs_off + (a.n + 1) * Sizeof[a.t]
        new_ext_size == subs_off + (a.n + 1) * Sizeof[a.t] + (IF xpath = "" THEN 0 ELSE sr_strshmlen(xpath))
        entry == CASE kind = "change" ->
                        [xpath |-> xpath_off, priority |-> priority, opts |-> 0, evpipe_num |-> evpipe_num]
                   [] kind = "oper" -> [xpath |-> xpath_off, opts |-> 0, evpipe_num |-> evpipe_num]
                   [] kind = "notif" -> [evpipe_num |-> evpipe_num]
        e1 == AddWasted(sr_shm_remap(s.ext, new_ext_size), a.n * Sizeof[a.t])
        e2 == Store(e1, subs_off, ArrObj(a.t, Append(Take(Arr(e1, a.off), a.n), entry)))
        e3 == IF xpath = "" THEN e2 ELSE Store(e2, xpath_off, StrObj(xpath))
    IN [main |-> [s.main EXCEPT !.mods[i] = SetModSub(@, kind, ds, subs_off, a.n + 1)], ext |-> e3]

(* all the subscriptions of an event pipe are removed one by one: the      *)
(* entry and its xpath become wasted, the last entry takes its place       *)
RECURSIVE sr_shmmod_subscription_del(_, _, _, _, _)
sr_shmmod_subscription_del(s, i, kind, ds, evpipe_num) ==
    LET a == ModSub(s.main.mods[i], kind, ds)
        subs == Arr(s.ext, a.off)
        hits == {x \in 1 .. a.n : subs[x].evpipe_num = evpipe_num}
        x == CHOOSE y \in hits : \A z \in hits : y <= z
        xp == IF kind = "notif" THEN 0 ELSE subs[x].xpath
        e1 == AddWasted(s.ext, Sizeof[a.t] + (IF xp = 0 THEN 0 ELSE sr_strshmlen(Str(s.ext, xp))))
        e2 == IF x < a.n THEN SetArr(e1, a.off, [subs EXCEPT ![x] = subs[a.n]]) ELSE e1
        m1 == SetModSub(s.main.mods[i], kind, ds, IF a.n = 1 THEN 0 ELSE a.off, a.n - 1)
    IN IF hits = {} THEN s
       ELSE sr_shmmod_subscription_del([main |-> [s.main EXCEPT !.mods[i] = m1], ext |-> e2],
                                       i, kind, ds, evpipe_num)

(***************************************************************************)
(* Defragmentation.  The live objects are copied into a buffer w.e of      *)
(* ext_size - wasted bytes; the offsets in Main SHM and in the copied      *)
(* records are rewritten as the copy goes.                                 *)
(***************************************************************************)

(* item i and the following ones of the copied array at off: the string    *)
(* the item refers to is copied ("item": the item is the offset of the     *)
(* string, else the name of the field that is), the module of a dependency *)
(* is looked up by name among the names already copied                     *)
RECURSIVE DefragCopyItems(_, _, _, _, _, _)
DefragCopyItems(mn, old, w, off, mode, i) ==
    LET item == Arr(w.e, off)[i]
        NameOf(name_off) ==
            LET ref == sr_shmmain_find_module([main |-> mn, ext |-> w.e], Str(old, name_off), 0)
            IN IF ref = 0 THEN 0 ELSE mn.mods[ref].name
        str == CASE mode = "item" -> item
                 [] mode = "op_path" -> item.op_path
                 [] mode = "inv" -> 0
                 [] OTHER -> item.xpath
        Set(r) ==
            CASE mode = "item" -> IF str = 0 THEN item ELSE r.off
              [] mode = "op_path" -> [item EXCEPT !.op_path = r.off]
              [] mode = "inv" -> NameOf(item)
              [] mode = "data_deps" ->
                    [item EXCEPT !.module = IF @ = 0 THEN 0 ELSE NameOf(@), !.xpath = r.off]
              [] OTHER -> [item EXCEPT !.xpath = r.off]
    IN IF i > Len(Arr(w.e, off)) THEN w
       ELSE CHOOSE res \in
               {DefragCopyItems(mn, old, [r.w EXCEPT !.e = SetArr(@, off, [Arr(@, off) EXCEPT ![i] = Set(r)])],
                                off, mode, i + 1) :
                r \in {IF str = 0 THEN [w |-> w, off |-> 0] ELSE sr_shmcpy(w, StrObj(Str(old, str)))}} : TRUE

(* result: cursor and the offset of the copy *)
sr_shmmain_defrag_copy_array_with_string(old, w, array, type, count) ==
    IF array = 0 /\ count = 0 THEN [w |-> w, off |-> 0]
    ELSE CHOOSE res \in
            {[w |-> DefragCopyItems([mods |-> <<>>], old, a.w, a.off,
                                    CASE type = "off_t" -> "item" [] type = "sr_rpc_t" -> "op_path"
                                      [] OTHER -> "xpath", 1),
              off |-> a.off] :
             a \in {sr_shmcpy(w, ArrObj(type, Take(Arr(old, array), count)))}} : TRUE

(* the copy of a data dependency array that copies the xpaths and leaves   *)
(* the module references as they were in the old Ext SHM                   *)
defrag_copy_data_deps_KeepsRefs(mn, old, w, data_deps, data_dep_count) ==
    IF data_deps = 0 /\ data_dep_count = 0 THEN [w |-> w, off |-> 0]
    ELSE CHOOSE res \in
            {[w |-> DefragCopyItems(mn, old, a.w, a.off, "xpath", 1), off |-> a.off] :
             a \in {sr_shmcpy(w, ArrObj("sr_mod_data_dep_t", Take(Arr(old, data_deps), data_dep_count)))}} : TRUE

sr_shmmain_defrag_copy_data_deps(mn, old, w, data_deps, data_dep_count) ==
    IF data_deps = 0 /\ data_dep_count = 0 THEN [w |-> w, off |-> 0]
    ELSE CHOOSE res \in
            {[w |-> DefragCopyItems(mn, old, a.w, a.off, "data_deps", 1), off |-> a.off] :
             a \in {sr_shmcpy(w, ArrObj("sr_mod_data_dep_t", Take(Arr(old, data_deps), data_dep_count)))}} : TRUE

sr_shmmain_defrag_copy_inv_data_deps(mn, old, w, inv_data_deps, inv_data_dep_count) ==
    IF inv_data_deps = 0 /\ inv_data_dep_count = 0 THEN [w |-> w, off |-> 0]
    ELSE CHOOSE res \in
            {[w |-> DefragCopyItems(mn, old, a.w, a.off, "inv", 1), off |-> a.off] :
             a \in {sr_shmcpy(w, ArrObj("off_t", Take(Arr(old, inv_data_deps), inv_data_dep_count)))}} : TRUE

(* the walk of sr_shmmain_ext_defrag over state s, in order: the names of  *)
(* all the modules; for every module its features, data deps, inverse data *)
(* deps, op deps with their input and output, change and operational       *)
(* subscriptions; the connections and their evpipes; the RPCs and their    *)
(* subscriptions.  A step is [f: what is copied, i, k: of which item]      *)
DefragSteps(s) ==
    LET RECURSIVE Concat(_)
        Concat(qq) == IF qq = <<>> THEN <<>> ELSE Head(qq) \o Concat(Tail(qq))
        P(f, i, k) == [f |-> f, i |-> i, k |-> k]
        OfMod(i) ==
            <<P("features", i, 0), P("data_deps", i, 0), P("inv_data_deps", i, 0), P("op_deps", i, 0)>>
                \o Concat([j \in 1 .. s.main.mods[i].op_dep_count |-> <<P("in_deps", i, j), P("out_deps", i, j)>>])
                \o [ds \in DsSet |-> P("change_sub", i, ds)]
                \o <<P("oper_subs", i, 0)>>
    IN [i \in DOMAIN s.main.mods |-> P("name", i, 0)]
           \o Concat([i \in DOMAIN s.main.mods |-> OfMod(i)])
           \o <<P("conns", 0, 0)>>
           \o [i \in 1 .. s.main.conn_count |-> P("evpipes", i, 0)]
           \o <<P("rpcs", 0, 0)>>
           \o [i \in 1 .. s.main.rpc_sub_count |-> P("rpc_subs", i, 0)]

(* one step: st = [main, w] is Main SHM and the buffer so far, s the state *)
(* before the defragmentation (the offsets read are not yet rewritten)     *)
DefragStep(st, s, p) ==
    LET m == s.main.mods[p.i]
        InBuf(off, i, item) == [st.w.e EXCEPT !.mem[off].v[i] = item]
        r == CASE p.f = "name" -> sr_shmstrcpy(st.w, Str(s.ext, m.name))
               [] p.f = "features" ->
                    sr_shmmain_defrag_copy_array_with_string(s.ext, st.w, m.features, "off_t", m.feat_count)
               [] p.f = "data_deps" ->
                    sr_shmmain_defrag_copy_data_deps(st.main, s.ext, st.w, m.data_deps, m.data_dep_count)
               [] p.f = "inv_data_deps" ->
                    sr_shmmain_defrag_copy_inv_data_deps(st.main, s.ext, st.w, m.inv_data_deps,
                                                         m.inv_data_dep_count)
               [] p.f = "op_deps" ->
                    sr_shmmain_defrag_copy_array_with_string(s.ext, st.w, m.op_deps, "sr_mod_op_dep_t",
                                                             m.op_dep_count)
               [] p.f = "in_deps" ->
                    sr_shmmain_defrag_copy_data_deps(st.main, s.ext, st.w, Arr(s.ext, m.op_deps)[p.k].in_deps,
                                                     Arr(s.ext, m.op_deps)[p.k].in_dep_count)
               [] p.f = "out_deps" ->
                    sr_shmmain_defrag_copy_data_deps(st.main, s.ext, st.w, Arr(s.ext, m.op_deps)[p.k].out_deps,
                                                     Arr(s.ext, m.op_deps)[p.k].out_dep_count)
               [] p.f = "change_sub" ->
                    sr_shmmain_defrag_copy_array_with_string(s.ext, st.w, m.change_sub[p.k].subs,
                                                             "sr_mod_change_sub_t", m.change_sub[p.k].sub_count)
               [] p.f = "oper_subs" ->
                    sr_shmmain_defrag_copy_array_with_string(s.ext, st.w, m.oper_subs, "sr_mod_oper_sub_t",
                                                             m.oper_sub_count)
               [] p.f = "conns" -> sr_shmcpy(st.w, ArrObj("sr_conn_state_t", Conns(s)))
               [] p.f = "evpipes" ->
                    sr_shmcpy(st.w, ArrObj("uint32_t", Take(Arr(s.ext, Conns(s)[p.i].evpipes),
                                                            Conns(s)[p.i].evpipe_count)))
               [] p.f = "rpcs" ->
                    sr_shmmain_defrag_copy_array_with_string(s.ext, st.w, s.main.rpc_subs, "sr_rpc_t",
                                                             s.main.rpc_sub_count)
               [] p.f = "rpc_subs" ->
                    sr_shmmain_defrag_copy_array_with_string(s.ext, st.w, Rpcs(s)[p.i].subs, "sr_rpc_sub_t",
                                                             Rpcs(s)[p.i].sub_count)
    IN CHOOSE res \in
          {CASE p.f = "name" -> [main |-> [st.main EXCEPT !.mods[p.i].name = x.off], w |-> x.w]
             [] p.f = "features" -> [main |-> [st.main EXCEPT !.mods[p.i].features = x.off], w |-> x.w]
             [] p.f = "data_deps" -> [main |-> [st.main EXCEPT !.mods[p.i].data_deps = x.off], w |-> x.w]
             [] p.f = "inv_data_deps" ->
                  [main |-> [st.main EXCEPT !.mods[p.i].inv_data_deps = x.off], w |-> x.w]
             [] p.f = "op_deps" -> [main |-> [st.main EXCEPT !.mods[p.i].op_deps = x.off], w |-> x.w]
             [] p.f = "in_deps" ->
                  [main |-> st.main,
                   w |-> [x.w EXCEPT !.e.mem[st.main.mods[p.i].op_deps].v[p.k].in_deps = x.off]]
             [] p.f = "out_deps" ->
                  [main |-> st.main,
                   w |-> [x.w EXCEPT !.e.mem[st.main.mods[p.i].op_deps].v[p.k].out_deps = x.off]]
             [] p.f = "change_sub" ->
                  [main |-> [st.main EXCEPT !.mods[p.i].change_sub[p.k].subs = x.off], w |-> x.w]
             [] p.f = "oper_subs" -> [main |-> [st.main EXCEPT !.mods[p.i].oper_subs = x.off], w |-> x.w]
             [] p.f = "conns" -> [main |-> [st.main EXCEPT !.conns = x.off], w |-> x.w]
             [] p.f = "evpipes" ->
                  [main |-> st.main, w |-> [x.w EXCEPT !.e.mem[st.main.conns].v[p.i].evpipes = x.off]]
             [] p.f = "rpcs" -> [main |-> [st.main EXCEPT !.rpc_subs = x.off], w |-> x.w]
             [] p.f = "rpc_subs" ->
                  [main |-> st.main, w |-> [x.w EXCEPT !.e.mem[st.main.rpc_subs].v[p.i].subs = x.off]] :
           x \in {r}} : TRUE

RECURSIVE DefragRun(_, _, _)
DefragRun(st, s, steps) ==
    IF steps = <<>> THEN st
    ELSE CHOOSE res \in {DefragRun(st1, s, Tail(steps)) : st1 \in {DefragStep(st, s, Head(steps))}} : TRUE

(* the buffer leaves out the wasted bytes, its wasted counter is 0 *)
ext_defrag_KeepsWasted(s) ==
    CHOOSE res \in
        {[main |-> st.main, buf |-> [st.w.e EXCEPT !.size = st.w.cur],
          err |-> IF st.w.cur # s.ext.size - s.ext.wasted THEN "INTERNAL" ELSE "OK", oob |-> st.w.oob] :
         st \in {DefragRun([main |-> s.main,
                            w |-> [e |-> [size |-> s.ext.size - s.ext.wasted, wasted |-> s.ext.wasted,
                                          mem |-> <<>>],
                                   cur |-> Sizeof.size_t, oob |-> FALSE, out |-> 0]],
                           s, DefragSteps(s))}} : TRUE

(* result: Main SHM as the walk leaves it, the buffer, the error of the    *)
(* final size check, and whether the walk wrote past the end of the buffer *)
sr_shmmain_ext_defrag(s) ==
    CHOOSE res \in
        {[main |-> st.main, buf |-> [st.w.e EXCEPT !.size = st.w.cur],
          err |-> IF st.w.cur # s.ext.size - s.ext.wasted THEN "INTERNAL" ELSE "OK", oob |-> st.w.oob] :
         st \in {DefragRun([main |-> s.main,
                            w |-> [e |-> [size |-> s.ext.size - s.ext.wasted, wasted |-> 0, mem |-> <<>>],
                                   cur |-> Sizeof.size_t, oob |-> FALSE, out |-> 0]],
                           s, DefragSteps(s))}} : TRUE

(***************************************************************************)
(* Recovery of the state left by connections whose process is gone.        *)
(* st = [s, err]: the state and the errors merged so far.                  *)
(***************************************************************************)

(* the loop over the RPCs for one event pipe: the subscriptions of the     *)
(* event pipe are removed from RPC k and the RPC with them if it was the   *)
(* last one, then k is incremented                                          *)
RECURSIVE RecoverRpcs(_, _, _)
RecoverRpcs(st, evpipe_num, k) ==
    LET Merge(a, b) == IF a # "OK" THEN a ELSE b
        DelRpcOf(d) ==
            CHOOSE res \in {[s |-> x.s, err |-> Merge(Merge(st.err, d.err), x.err)] :
                            x \in {sr_shmmain_del_rpc(d.s, "", Arr(d.s.ext, st.s.main.rpc_subs)[k].op_path)}} : TRUE
    IN IF k > st.s.main.rpc_sub_count THEN st
       ELSE CHOOSE res \in
               {RecoverRpcs(IF d.last_removed = 1 THEN DelRpcOf(d)
                            ELSE [s |-> d.s, err |-> Merge(st.err, d.err)], evpipe_num, k + 1) :
                d \in {sr_shmmain_rpc_subscription_del(st.s, k, "", 0, evpipe_num, TRUE)}} : TRUE

(* the loop over the event pipes of a connection, from the j-th on: the    *)
(* change (every datastore), operational and notification subscriptions of *)
(* the event pipe are removed from every module, then the RPC ones         *)
RECURSIVE RecoverEvpipes(_, _, _)
RecoverEvpipes(st, evpipes, j) ==
    LET RECURSIVE ModSubs(_, _)
        ModSubs(s, steps) ==
            IF steps = <<>> THEN s
            ELSE CHOOSE res \in
                    {ModSubs(s1, Tail(steps)) :
                     s1 \in {sr_shmmod_subscription_del(s, Head(steps)[1], Head(steps)[2], Head(steps)[3],
                                                        evpipes[j])}} : TRUE
        RECURSIVE Steps(_)
        Steps(i) ==
            IF i > Len(st.s.main.mods) THEN <<>>
            ELSE [ds \in DsSet |-> <<i, "change", ds>>] \o <<<<i, "oper", 1>>, <<i, "notif", 1>>>> \o Steps(i + 1)
    IN IF j > Len(evpipes) THEN st
       ELSE CHOOSE res \in
               {RecoverEvpipes(RecoverRpcs([s |-> s1, err |-> st.err], evpipes[j], 1), evpipes, j + 1) :
                s1 \in {ModSubs(st.s, Steps(1))}} : TRUE

(* what a connection record says: its identity, its event pipes, its lock  *)
ConnViews(s) ==
    {[conn_ctx |-> c.conn_ctx, pid |-> c.pid, lock_main |-> c.lock_main, main_rcount |-> c.main_rcount,
      evpipes |-> {Arr(s.ext, c.evpipes)[j] : j \in 1 .. Min(c.evpipe_count, Len(Arr(s.ext, c.evpipes)))}] :
     c \in {Conns(s)[i] : i \in DOMAIN Conns(s)}}

(* the event pipes of the connections whose process is gone *)
DeadEvpipes(s, alive) == UNION {v.evpipes : v \in {w \in ConnViews(s) : w.pid \notin alive}}

(* every subscription of Ext SHM, RPC and module ones: where it is stored  *)
(* (at) and what it says (d)                                               *)
Subscriptions(s) ==
    LET RpcSub(k, n) ==
            [in |-> <<"rpc", Str(s.ext, Rpcs(s)[k].op_path), 1>>,
             xpath |-> Str(s.ext, Arr(s.ext, Rpcs(s)[k].subs)[n].xpath),
             priority |-> Arr(s.ext, Rpcs(s)[k].subs)[n].priority,
             evpipe_num |-> Arr(s.ext, Rpcs(s)[k].subs)[n].evpipe_num]
        Mod(i) == s.main.mods[i]
        Item(i, kind, ds, n) == Arr(s.ext, ModSub(Mod(i), kind, ds).off)[n]
        ModuleSub(i, kind, ds, n) ==
            [in |-> <<kind, Str(s.ext, Mod(i).name), ds>>,
             xpath |-> IF kind = "notif" THEN "" ELSE Str(s.ext, Item(i, kind, ds, n).xpath),
             priority |-> IF kind = "change" THEN Item(i, kind, ds, n).priority ELSE 0,
             evpipe_num |-> Item(i, kind, ds, n).evpipe_num]
    IN UNION {{[at |-> <<"rpc", k, 1, n>>, d |-> RpcSub(k, n)] : n \in 1 .. Rpcs(s)[k].sub_count} :
                 k \in DOMAIN Rpcs(s)}
       \cup UNION {{[at |-> <<x[2], x[1], x[3], n>>, d |-> ModuleSub(x[1], x[2], x[3], n)] :
                       n \in 1 .. ModSub(Mod(x[1]), x[2], x[3]).n} :
                   x \in {y \in (DOMAIN s.main.mods) \X {"change", "oper", "notif"} \X DsSet :
                              y[2] # "change" => y[3] = 1}}

(* the read locks of a dead connection are taken back from the lock of     *)
(* Main SHM; any other lock summary is not supported                       *)
RecoverLock(st, conn_s) ==
    IF conn_s.lock_main = "READ"
    THEN [st EXCEPT !.s.main.lock.readers = @ - conn_s.main_rcount]
    ELSE [st EXCEPT !.err = "INTERNAL"]

(* the while loop over the connection records, from record i on; alive:    *)
(* the processes that exist.  After sr_shmmain_state_del_conn the stored   *)
(* operational data is erased for the (conn_ctx, pid) read from conn_s[i], *)
(* the array as it was found at the start of the sweep.                    *)
RECURSIVE RecoverConns(_, _, _)
RecoverConns(st, alive, i) ==
    LET Erase(st1) ==
            CHOOSE res \in
                {RecoverConns([s |-> s2, err |-> st1.err,
                               erased |-> Append(st.erased,
                                                 [conn_ctx |-> Arr(s2.ext, st.s.main.conns)[i].conn_ctx,
                                                  pid |-> Arr(s2.ext, st.s.main.conns)[i].pid,
                                                  dead |-> Conns(st.s)[i].pid])], alive, i) :
                 s2 \in {sr_shmmain_state_del_conn(st1.s, Conns(st1.s)[i].conn_ctx, Conns(st1.s)[i].pid)}} : TRUE
    IN IF i > st.s.main.conn_count THEN st
       ELSE IF Conns(st.s)[i].pid \in alive THEN RecoverConns(st, alive, i + 1)
       ELSE CHOOSE res \in
               {Erase(st1) :
                st1 \in {RecoverEvpipes(RecoverLock([s |-> st.s, err |-> st.err], Conns(st.s)[i]),
                                        Take(Arr(st.s.ext, Conns(st.s)[i].evpipes), Conns(st.s)[i].evpipe_count),
                                        1)}} : TRUE

(* the sweep starts at the second connection record *)
state_recover_SkipsFirst(s, alive) == RecoverConns([s |-> s, err |-> "OK", erased |-> <<>>], alive, 2)

(* result: the state, the merged error, and the calls of                   *)
(* sr_shmmod_oper_stored_del_conn: its arguments, and the pid of the       *)
(* connection that had just been removed                                   *)
sr_shmmain_state_recover(s, alive) == RecoverConns([s |-> s, err |-> "OK", erased |-> <<>>], alive, 1)

(***************************************************************************)
(* Read/write locks (the lock of Main SHM, the ext_remap_lock of every     *)
(* connection): a mutex and a count of readers.  A writer keeps the mutex, *)
(* a reader takes it only to count itself; a writer waiting for the        *)
(* readers to leave does not hold the mutex.                               *)
(***************************************************************************)
(* ok: the lock is granted now *)
sr_rwlock(l, mode, who) ==
    [ok |-> l.mutex = 0 /\ (mode = "READ" \/ l.readers = 0),
     l |-> IF mode = "READ" THEN [l EXCEPT !.readers = @ + 1] ELSE [l EXCEPT !.mutex = who]]

sr_rwunlock(l, mode) ==
    IF mode = "READ" THEN [l EXCEPT !.readers = @ - 1] ELSE [l EXCEPT !.mutex = 0]

(***************************************************************************)
(* The callers.  Connection c is created by process c; process c + MaxCtx  *)
(* is a child forked from it, which the connection state does not know.    *)
(* Threads 1 and 2 use connection 1, thread 3 uses connection 2.           *)
(***************************************************************************)
Pids(c) == {c, c + MaxCtx}

Threads == {1, 2, 3}
ConnOf(t) == IF t = 3 THEN 2 ELSE 1

EmptyMain ==
    [lock |-> [mutex |-> 0, readers |-> 0], lydmods_lock |-> 0,
     conns |-> 0, conn_count |-> 0, rpc_subs |-> 0, rpc_sub_count |-> 0,
     new_evpipe_num |-> 1, mods |-> <<>>]

(* sr_shmmain_ext_open(shm, zero = 1): one word, the wasted counter, zeroed *)
EmptyExt == [size |-> Sizeof.size_t, wasted |-> 0, mem |-> <<>>]

(* lk: the ext_remap_lock and the mapped size of Ext SHM of every          *)
(* connection, and where every thread is in sr_shmmain_lock_remap (L1-L6)  *)
(* or sr_shmmain_unlock (U1-U5) with the arguments of the call; rec: the   *)
(* processes that exist, and the state a recovery started from             *)
Init ==
    /\ main = EmptyMain
    /\ ext = EmptyExt
    /\ lydmods = <<>>
    /\ last = [op |-> "", err |-> "OK", oob |-> FALSE, out |-> 0]
    /\ lk = [remap |-> [c \in Ctxs |-> [mutex |-> 0, readers |-> 0]],
             mapped |-> [c \in Ctxs |-> Sizeof.size_t],
             th |-> [t \in Threads |->
                       [pc |-> "idle", mode |-> "READ", remap |-> FALSE, lydmods |-> FALSE,
                        depth |-> 0, tmp |-> 0]]]
    /\ rec = [alive |-> Ctxs, swept |-> FALSE, pre |-> [main |-> EmptyMain, ext |-> EmptyExt],
                  erased |-> <<>>]
    /\ rp = [pc |-> "none", w |-> <<>>]

(* The operation returns with state s.  last: the operation that failed    *)
(* and its error, or no error; oob: it wrote past the end of the mapped    *)
(* Ext SHM; out: the value it stored through its output parameter          *)
(* (last_removed), 0 for an operation that has none.                       *)
CommitOut(s, op, err, oob, out) ==
    /\ \E n \in {Normalize(s)} : main' = n.main /\ ext' = n.ext
    /\ last' = [op |-> IF err = "OK" THEN "" ELSE op, err |-> err, oob |-> oob, out |-> out]

Commit(s, op, err, oob) == CommitOut(s, op, err, oob, 0)

StateAddConn ==
    \E c \in rec.alive :
        /\ sr_shmmain_state_find_conn(S, c, c) = 0
        /\ Commit(sr_shmmain_state_add_conn(S, c, c), "state_add_conn", "OK", FALSE)
        /\ UNCHANGED <<lydmods, lk, rec>>

StateDelConn ==
    \E c \in rec.alive : \E pid \in Pids(c) :
        /\ sr_shmmain_state_find_conn(S, c, c) # 0
        /\ Commit(sr_shmmain_state_del_conn(S, c, pid), "state_del_conn", "OK", FALSE)
        /\ UNCHANGED <<lydmods, lk, rec>>

(* the caller takes the next event pipe number first *)
StateAddEvpipe ==
    \E c \in rec.alive : \E pid \in Pids(c) :
        /\ sr_shmmain_state_find_conn(S, c, c) # 0
        /\ main.new_evpipe_num <= MaxEvpipe
        /\ \E r \in {sr_shmmain_state_add_evpipe([S EXCEPT !.main.new_evpipe_num = @ + 1], c, pid,
                                                 main.new_evpipe_num)} :
              Commit(r.s, "state_add_evpipe", r.err, FALSE)
        /\ UNCHANGED <<lydmods, lk, rec>>

EvpipeNums == 1 .. main.new_evpipe_num - 1

StateDelEvpipe ==
    \E c \in rec.alive, evpipe_num \in EvpipeNums :
        /\ sr_shmmain_state_find_conn(S, c, c) # 0
        /\ Commit(sr_shmmain_state_del_evpipe(S, c, c, evpipe_num), "state_del_evpipe", "OK", FALSE)
        /\ UNCHANGED <<lydmods, lk, rec>>

AddRpc ==
    \E op_path \in OpPaths :
        /\ sr_shmmain_find_rpc(S, op_path, 0) = 0
        /\ main.rpc_sub_count < MaxRpc
        /\ Commit(sr_shmmain_add_rpc(S, op_path), "add_rpc", "OK", FALSE)
        /\ UNCHANGED <<lydmods, lk, rec>>

(* callers remove an RPC when its last subscription is gone, by path or by *)
(* the offset of the path                                                  *)
DelRpc ==
    \E op_path \in OpPaths, by_off \in BOOLEAN :
        \E k \in {sr_shmmain_find_rpc(S, op_path, 0)} :
            /\ k # 0 => Rpcs(S)[k].sub_count = 0
            /\ \E r \in {IF by_off /\ k # 0 THEN sr_shmmain_del_rpc(S, "", Rpcs(S)[k].op_path)
                         ELSE sr_shmmain_del_rpc(S, op_path, 0)} :
                  Commit(r.s, "del_rpc", r.err, FALSE)
            /\ UNCHANGED <<lydmods, lk, rec>>

(* the event pipe is one of the numbers handed out so far *)
RpcSubscriptionAddUpTo(max_sub) ==
    \E k \in 1 .. main.rpc_sub_count, xpath \in XPaths, priority \in Priorities, evpipe_num \in EvpipeNums :
        /\ Rpcs(S)[k].sub_count < max_sub
        /\ Commit(sr_shmmain_rpc_subscription_add(S, k, xpath, priority, 0, evpipe_num),
                  "rpc_subscription_add", "OK", FALSE)
        /\ UNCHANGED <<lydmods, lk, rec>>

RpcSubscriptionAdd == RpcSubscriptionAddUpTo(MaxRpcSub)

(* one subscription (xpath, priority), or all those of an event pipe *)
RpcSubscriptionDel ==
    \E k \in 1 .. main.rpc_sub_count, xpath \in XPaths, priority \in Priorities,
       evpipe_num \in 0 .. main.new_evpipe_num - 1 :
        /\ evpipe_num # 0 => xpath = "/x" /\ priority = 0
        /\ \E r \in {IF evpipe_num = 0 THEN sr_shmmain_rpc_subscription_del(S, k, xpath, priority, 0, FALSE)
                     ELSE sr_shmmain_rpc_subscription_del(S, k, "", 0, evpipe_num, TRUE)} :
              CommitOut(r.s, "rpc_subscription_del", r.err, FALSE, r.last_removed)
        /\ UNCHANGED <<lydmods, lk, rec>>

(* The shapes of a new module of the catalog: features, data dependencies *)
(* (on a module, an instance-identifier with or without a default module)  *)
(* or op dependencies, and a module with both features and dependencies.   *)
NewModules(tree) ==
    LET name == ModNames[Len(tree) + 1]
        Module(f, d, o) == [name |-> name, features |-> f, data_deps |-> d, inv_deps |-> <<>>, op_deps |-> o]
        OnModule(n) == [kind |-> "module", module |-> n, xpath |-> ""]
        InstId(n) == [kind |-> "inst-id", module |-> n, xpath |-> "/i"]
        OpDep(in, out) ==
            [xpath |-> "/o", has_in |-> in # <<>>, in |-> in, has_out |-> TRUE, out |-> out]
    IN {Module(f, <<>>, <<>>) : f \in {<<>>, <<"f">>}}
           \cup {Module(<<>>, <<InstId("")>>, <<>>)}
           \cup {Module(<<>>, <<OnModule(tree[i].name)>>, <<>>) : i \in DOMAIN tree}
           \cup {Module(<<>>, <<InstId(tree[i].name), OnModule(tree[i].name)>>, <<>>) : i \in DOMAIN tree}
           \cup {Module(<<>>, <<>>, <<OpDep(<<InstId("")>>, <<>>)>>),
                 Module(<<>>, <<>>, <<OpDep(<<>>, <<InstId("")>>)>>)}
           \cup {Module(<<"f">>, <<OnModule(tree[i].name)>>, <<>>) : i \in DOMAIN tree}

(* the catalog with m appended: the modules m depends on get it as an      *)
(* inverse dependency                                                      *)
WithInverse(tree, m) ==
    [i \in DOMAIN tree |->
        IF \E k \in DOMAIN m.data_deps : m.data_deps[k].module = tree[i].name
        THEN [tree[i] EXCEPT !.inv_deps = Append(@, m.name)]
        ELSE tree[i]] \o <<m>>

(* sr_shmmain_add with one new module at the end of the catalog, while the *)
(* catalog has fewer than max_mods modules and Ext SHM is small enough     *)
Add(max_mods, max_size) ==
    /\ Len(lydmods) < max_mods
    /\ \E m \in NewModules(lydmods) :
          /\ ext.size + sr_shmmain_ext_get_lydmods_size(<<m>>) + Sizeof.off_t <= max_size
          /\ lydmods' = WithInverse(lydmods, m)
          /\ \E r \in {sr_shmmain_add(S, WithInverse(lydmods, m), 1)} : Commit(r.s, "add", r.err, r.oob)
          /\ UNCHANGED <<lk, rec>>

(* the operation leaves Ext SHM within the bounds *)
Fits(max_size, max_objs) == ext'.size <= max_size /\ Cardinality(DOMAIN ext'.mem) <= max_objs

NextExt ==
    \/ StateAddConn /\ Fits(MaxExtSize, MaxExtObjs) /\ UNCHANGED rp
    \/ StateDelConn /\ UNCHANGED rp
    \/ StateAddEvpipe /\ Fits(MaxExtSize, MaxExtObjs) /\ UNCHANGED rp
    \/ StateDelEvpipe /\ UNCHANGED rp
    \/ AddRpc /\ Fits(MaxExtSize, MaxExtObjs) /\ UNCHANGED rp
    \/ DelRpc /\ UNCHANGED rp
    \/ RpcSubscriptionAdd /\ Fits(MaxExtSize, MaxExtObjs) /\ UNCHANGED rp
    \/ RpcSubscriptionDel /\ UNCHANGED rp
    \/ Add(MaxMods, MaxAddSize) /\ Fits(MaxExtSize, MaxExtObjs) /\ UNCHANGED rp

SpecExt == Init /\ [][NextExt]_vars

(***************************************************************************)
(* Defragmentation among the operations.                                   *)
(***************************************************************************)

(* a change subscription (the xpath is optional), an operational one, or a *)
(* notification one (it has no xpath), for an event pipe handed out so far *)
ModSubAdd ==
    \E i \in DOMAIN main.mods, kind \in {"change", "oper", "notif"}, ds \in DsSet,
       xpath \in {"", "/x"}, evpipe_num \in EvpipeNums :
        /\ kind # "change" => ds = 1
        /\ kind = "oper" => xpath # ""
        /\ kind = "notif" => xpath = ""
        /\ SumSeq([d \in DsSet |-> main.mods[i].change_sub[d].sub_count])
               + main.mods[i].oper_sub_count + main.mods[i].notif_sub_count < MaxModSub
        /\ Commit(sr_shmmod_subscription_add(S, i, kind, ds, xpath, 0, evpipe_num),
                  "subscription_add", "OK", FALSE)
        /\ UNCHANGED <<lydmods, lk, rec>>

ModSubDel ==
    \E i \in DOMAIN main.mods, kind \in {"change", "oper", "notif"}, ds \in DsSet, evpipe_num \in EvpipeNums :
        /\ kind # "change" => ds = 1
        /\ ModSub(main.mods[i], kind, ds).n > 0
        /\ Commit(sr_shmmod_subscription_del(S, i, kind, ds, evpipe_num), "subscription_del", "OK", FALSE)
        /\ UNCHANGED <<lydmods, lk, rec>>

(* Main SHM is rewritten by the walk; the buffer replaces Ext SHM when     *)
(* sr_shmmain_ext_defrag returns it                                        *)
Defrag ==
    \E r \in {sr_shmmain_ext_defrag(S)} :
        /\ main' = r.main
        /\ ext' = IF r.err = "OK" THEN r.buf ELSE ext
        /\ last' = [op |-> "ext_defrag", err |-> r.err, oob |-> r.oob, out |-> 0]
        /\ UNCHANGED <<lydmods, lk, rec>>

(* the other operations wait for the defragmentation of what was wasted;   *)
(* an internal error ends the run                                          *)
DefragTurn == last.err # "INTERNAL" /\ ext.wasted <= MaxDefragWasted

NextDefrag ==
    \/ DefragTurn /\ StateAddConn /\ Fits(MaxDefragSize, MaxDefragObjs) /\ UNCHANGED rp
    \/ DefragTurn /\ StateDelConn /\ UNCHANGED rp
    \/ DefragTurn /\ StateAddEvpipe /\ Fits(MaxDefragSize, MaxDefragObjs) /\ UNCHANGED rp
    \/ DefragTurn /\ StateDelEvpipe /\ UNCHANGED rp
    \/ DefragTurn /\ AddRpc /\ Fits(MaxDefragSize, MaxDefragObjs) /\ UNCHANGED rp
    \/ DefragTurn /\ DelRpc /\ UNCHANGED rp
    \/ DefragTurn /\ RpcSubscriptionAdd /\ Fits(MaxDefragSize, MaxDefragObjs) /\ UNCHANGED rp
    \/ DefragTurn /\ RpcSubscriptionDel /\ UNCHANGED rp
    \/ DefragTurn /\ Add(MaxMods, MaxAddSize) /\ Fits(MaxDefragSize, MaxDefragObjs) /\ UNCHANGED rp
    \/ DefragTurn /\ ModSubAdd /\ Fits(MaxDefragSize, MaxDefragObjs) /\ UNCHANGED rp
    \/ DefragTurn /\ ModSubDel /\ UNCHANGED rp
    \/ last.err # "INTERNAL" /\ Defrag /\ UNCHANGED rp

SpecDefrag == Init /\ [][NextDefrag]_vars

(***************************************************************************)
(* Recovery among the operations.  The connections have one thread each;   *)
(* processes are killed, then one of the others runs the recovery.         *)
(***************************************************************************)

(* the connection record of connection c *)
ConnRec(c) == Conns(S)[sr_shmmain_state_find_conn(S, c, c)]

SetConnLock(c, lock_main, main_rcount) ==
    SetArr(ext, main.conns,
           [Arr(ext, main.conns) EXCEPT ![sr_shmmain_state_find_conn(S, c, c)] =
               [@ EXCEPT !.lock_main = lock_main, !.main_rcount = main_rcount]])

(* sr_shmmain_lock_remap(conn, SR_LOCK_READ, 0, 0) of a connection that no *)
(* other thread uses, in one step.  No process holds main_shm.lock in      *)
(* exclusive mode in these runs: sr_rwlock_with_recovery gets the read     *)
(* lock at its first try and has no timeout to recover from.               *)
LockRead ==
    \E c \in rec.alive :
        /\ sr_shmmain_state_find_conn(S, c, c) # 0
        /\ ConnRec(c).main_rcount < MaxRcount
        /\ sr_rwlock(main.lock, "READ", c).ok
        /\ main' = [main EXCEPT !.lock = sr_rwlock(main.lock, "READ", c).l]
        /\ ext' = SetConnLock(c, "READ", ConnRec(c).main_rcount + 1)
        /\ last' = [op |-> "lock_remap", err |-> "OK", oob |-> FALSE, out |-> 0]
        /\ UNCHANGED <<lydmods, lk, rec>>

(* the process of a connection is killed *)
Crash ==
    \E p \in rec.alive :
        /\ rec' = [rec EXCEPT !.alive = @ \ {p}]
        /\ last' = [op |-> "kill", err |-> "OK", oob |-> FALSE, out |-> 0]
        /\ UNCHANGED <<main, ext, lydmods, lk>>

(* a surviving process runs the sweep *)
Recover ==
    /\ rec.alive # Ctxs
    /\ \E r \in {sr_shmmain_state_recover(S, rec.alive)} :
          /\ Commit(r.s, "state_recover", r.err, FALSE)
          /\ rec' = [rec EXCEPT !.swept = TRUE, !.pre = S, !.erased = r.erased]
    /\ UNCHANGED <<lydmods, lk>>

(* The state is built in one order: modules, connections and their read    *)
(* locks, event pipes, RPCs, their subscriptions, the subscriptions of the *)
(* modules.  Built(k): nothing of a later kind than k is there yet.        *)
(* Nothing is added once a process is gone; the recovery ends the run.     *)
Built(k) ==
    /\ rec.alive = Ctxs
    /\ k < 6 => \A i \in DOMAIN main.mods :
                    \A kind \in {"change", "oper", "notif"}, ds \in DsSet : ModSub(main.mods[i], kind, ds).n = 0
    /\ k < 5 => \A i \in DOMAIN Rpcs(S) : Rpcs(S)[i].sub_count = 0
    /\ k < 4 => main.rpc_sub_count = 0
    /\ k < 3 => main.new_evpipe_num = 1
    /\ k < 2 => main.conn_count = 0

(* the subscriptions of the recovery runs *)
RecoverShape ==
    /\ \A k \in DOMAIN Rpcs(S) :
          \A n \in 1 .. Rpcs(S)[k].sub_count :
              /\ Arr(ext, Rpcs(S)[k].subs)[n].priority = 0
              /\ Str(ext, Arr(ext, Rpcs(S)[k].subs)[n].xpath) = "/x"
    /\ Len(main.mods) <= 1
    /\ \A i \in DOMAIN main.mods :
          main.mods[i].features = 0 /\ main.mods[i].data_dep_count = 0 /\ main.mods[i].op_dep_count = 0
    /\ \A i \in DOMAIN main.mods :
          /\ ModSub(main.mods[i], "change", 2).n = 0
          /\ ModSub(main.mods[i], "change", 1).n + ModSub(main.mods[i], "oper", 1).n
                 + ModSub(main.mods[i], "notif", 1).n <= 1
    /\ \A i \in DOMAIN Conns(S) : Conns(S)[i].main_rcount <= 1

NextRecover ==
    \/ Built(1) /\ Add(MaxMods, MaxAddSize) /\ Fits(MaxRecoverSize, MaxRecoverObjs) /\ RecoverShape' /\ UNCHANGED rp
    \/ Built(2) /\ StateAddConn /\ Fits(MaxRecoverSize, MaxRecoverObjs) /\ UNCHANGED rp
    \/ Built(3) /\ StateAddEvpipe /\ Fits(MaxRecoverSize, MaxRecoverObjs) /\ UNCHANGED rp
    \/ Built(4) /\ AddRpc /\ Fits(MaxRecoverSize, MaxRecoverObjs) /\ UNCHANGED rp
    \/ Built(5) /\ RpcSubscriptionAdd /\ Fits(MaxRecoverSize, MaxRecoverObjs) /\ RecoverShape' /\ UNCHANGED rp
    \/ Built(6) /\ ModSubAdd /\ Fits(MaxRecoverSize, MaxRecoverObjs) /\ RecoverShape' /\ UNCHANGED rp
    \/ (Built(2) \/ rec.alive # Ctxs) /\ ~rec.swept /\ LockRead /\ RecoverShape' /\ UNCHANGED rp
    \/ ~rec.swept /\ Crash /\ UNCHANGED rp
    \/ ~rec.swept /\ Recover /\ UNCHANGED rp

SpecRecover == Init /\ [][NextRecover]_vars

(***************************************************************************)
(* Threads in sr_shmmain_lock_remap and sr_shmmain_unlock.  Both           *)
(* connections are registered.  pc of a thread: idle, L1 .. L6 (the steps  *)
(* of sr_shmmain_lock_remap), held (the call has returned), U2 .. U5 (the  *)
(* steps of sr_shmmain_unlock).                                            *)
(***************************************************************************)
InitLock ==
    \E s \in {Normalize(sr_shmmain_state_add_conn(
                  sr_shmmain_state_add_conn([main |-> EmptyMain, ext |-> EmptyExt], 1, 1), 2, 2))} :
        /\ main = s.main
        /\ ext = s.ext
        /\ lydmods = <<>>
        /\ last = [op |-> "", err |-> "OK", oob |-> FALSE, out |-> 0]
        /\ lk = [remap |-> [c \in Ctxs |-> [mutex |-> 0, readers |-> 0]],
                 mapped |-> [c \in Ctxs |-> s.ext.size],
                 th |-> [t \in Threads |->
                           [pc |-> "idle", mode |-> "READ", remap |-> FALSE, lydmods |-> FALSE,
                            depth |-> 0, tmp |-> 0]]]
        /\ rec = [alive |-> Ctxs, swept |-> FALSE, pre |-> [main |-> EmptyMain, ext |-> EmptyExt],
                  erased |-> <<>>]
        /\ rp = [pc |-> "none", w |-> <<>>]

(* a call of sr_shmmain_lock_remap(conn, mode, remap, lydmods): the        *)
(* threads of connection 1 read, the thread of connection 2 also writes    *)
CallWith(t, modes, remaps, lyds) ==
    \E mode \in modes, remap \in remaps, lyd \in lyds :
        /\ lk.th[t].pc = "idle"
        /\ mode = "READ" /\ sr_shmmain_state_find_conn(S, ConnOf(t), ConnOf(t)) # 0
               => ConnRec(ConnOf(t)).main_rcount \in 0 .. MaxRcount - 1
        /\ lk' = [lk EXCEPT !.th[t] = [pc |-> "L1", mode |-> mode, remap |-> remap, lydmods |-> lyd,
                                       depth |-> 1, tmp |-> 0]]
        /\ UNCHANGED <<main, ext, lydmods, last, rec>>

Call(t) ==
    CallWith(t, IF t = 3 THEN {"READ", "WRITE", "WRITE_NOSTATE"} ELSE {"READ"},
             IF t = 3 THEN BOOLEAN ELSE {FALSE}, IF t = 3 THEN BOOLEAN ELSE {t = 2})

(* the thread holds a read lock and asks for it again *)
CallNested(t) ==
    /\ lk.th[t].pc = "held" /\ lk.th[t].depth = 1
    /\ lk.th[t].mode = "READ" /\ ~lk.th[t].remap /\ ~lk.th[t].lydmods
    /\ ConnRec(ConnOf(t)).main_rcount \in 0 .. MaxRcount - 1
    /\ lk' = [lk EXCEPT !.th[t].pc = "L1", !.th[t].depth = 2]
    /\ UNCHANGED <<main, ext, lydmods, last, rec>>

(* REMAP READ/WRITE LOCK *)
LockRemapLock(t) ==
    \E r \in {sr_rwlock(lk.remap[ConnOf(t)], IF lk.th[t].remap THEN "WRITE" ELSE "READ", t)} :
        /\ lk.th[t].pc = "L1"
        /\ r.ok
        /\ lk' = [lk EXCEPT !.remap[ConnOf(t)] = r.l, !.th[t].pc = "L2"]
        /\ UNCHANGED <<main, ext, lydmods, last, rec>>

(* MAIN SHM READ/WRITE LOCK *)
LockMain(t) ==
    \E r \in {sr_rwlock(main.lock, IF lk.th[t].mode = "READ" THEN "READ" ELSE "WRITE", t)} :
        /\ lk.th[t].pc = "L2"
        /\ r.ok
        /\ main' = [main EXCEPT !.lock = r.l]
        /\ lk' = [lk EXCEPT !.th[t].pc = "L3"]
        /\ UNCHANGED <<ext, lydmods, last, rec>>

(* where the thread goes on after the locks it asked for *)
AfterLocks(me) == IF me.mode = "WRITE_NOSTATE" THEN "held" ELSE "L5"

(* sr_shm_remap(&conn->ext_shm, 0): the mapping follows the size of Ext SHM *)
RemapShm(t) ==
    /\ lk.th[t].pc = "L3"
    /\ lk' = [lk EXCEPT !.mapped[ConnOf(t)] = ext.size,
                        !.th[t].pc = IF lk.th[t].lydmods THEN "L4" ELSE AfterLocks(lk.th[t])]
    /\ UNCHANGED <<main, ext, lydmods, last, rec>>

(* LYDMODS LOCK *)
LockLydmods(t) ==
    /\ lk.th[t].pc = "L4"
    /\ main.lydmods_lock = 0
    /\ main' = [main EXCEPT !.lydmods_lock = t]
    /\ lk' = [lk EXCEPT !.th[t].pc = AfterLocks(lk.th[t])]
    /\ UNCHANGED <<ext, lydmods, last, rec>>

(* the lock summary is stored; for a read lock main_rcount is loaded *)
StoreLock(t) ==
    /\ lk.th[t].pc = "L5"
    /\ sr_shmmain_state_find_conn(S, ConnOf(t), ConnOf(t)) # 0
    /\ ext' = SetConnLock(ConnOf(t), lk.th[t].mode, ConnRec(ConnOf(t)).main_rcount)
    /\ lk' = [lk EXCEPT !.th[t].tmp = IF lk.th[t].mode = "READ" THEN ConnRec(ConnOf(t)).main_rcount ELSE 0,
                        !.th[t].pc = IF lk.th[t].mode = "READ" THEN "L6" ELSE "held"]
    /\ UNCHANGED <<main, lydmods, last, rec>>

(* ++conn_s->lock.main_rcount: the incremented value is stored.  The       *)
(* uint32_t counter is kept as a two's complement value: -1 is 0xFFFFFFFF  *)
IncRcount(t) ==
    /\ lk.th[t].pc = "L6"
    /\ ext' = SetConnLock(ConnOf(t), ConnRec(ConnOf(t)).lock_main, lk.th[t].tmp + 1)
    /\ lk' = [lk EXCEPT !.th[t].pc = "held", !.th[t].tmp = 0]
    /\ UNCHANGED <<main, lydmods, last, rec>>

(* with the exclusive locks held the thread adds an event pipe to its      *)
(* connection: Ext SHM grows and is remapped                               *)
HeldAddEvpipe(t) ==
    /\ lk.th[t].pc = "held" /\ lk.th[t].mode = "WRITE" /\ lk.th[t].remap
    /\ main.new_evpipe_num <= MaxEvpipe
    /\ \E r \in {sr_shmmain_state_add_evpipe([S EXCEPT !.main.new_evpipe_num = @ + 1], ConnOf(t), ConnOf(t),
                                             main.new_evpipe_num)} :
          /\ Commit(r.s, "state_add_evpipe", r.err, FALSE)
          /\ lk' = [lk EXCEPT !.mapped[ConnOf(t)] = r.s.ext.size]
    /\ UNCHANGED <<lydmods, rec>>

(* a call of sr_shmmain_unlock with the arguments of the lock; for a write *)
(* lock the summary is cleared, for a read lock main_rcount is loaded      *)
CallUnlock(t) ==
    /\ lk.th[t].pc = "held"
    /\ ext' = IF lk.th[t].mode = "WRITE" THEN SetConnLock(ConnOf(t), "NONE", ConnRec(ConnOf(t)).main_rcount)
              ELSE ext
    /\ lk' = [lk EXCEPT !.th[t].tmp = IF lk.th[t].mode = "READ" THEN ConnRec(ConnOf(t)).main_rcount ELSE 0,
                        !.th[t].pc = IF lk.th[t].mode = "READ" THEN "U2" ELSE "U3"]
    /\ UNCHANGED <<main, lydmods, last, rec>>

(* the summary stays although no read lock is left *)
DecRcount_KeepsSummary(t) ==
    /\ lk.th[t].pc = "U2"
    /\ ext' = SetConnLock(ConnOf(t), ConnRec(ConnOf(t)).lock_main, lk.th[t].tmp - 1)
    /\ lk' = [lk EXCEPT !.th[t].pc = "U3", !.th[t].tmp = 0]
    /\ UNCHANGED <<main, lydmods, last, rec>>

(* --conn_s->lock.main_rcount: the decremented value is stored, the        *)
(* summary is cleared at zero                                              *)
DecRcount(t) ==
    /\ lk.th[t].pc = "U2"
    /\ ext' = SetConnLock(ConnOf(t),
                          IF lk.th[t].tmp - 1 = 0 THEN "NONE" ELSE ConnRec(ConnOf(t)).lock_main,
                          lk.th[t].tmp - 1)
    /\ lk' = [lk EXCEPT !.th[t].pc = "U3", !.th[t].tmp = 0]
    /\ UNCHANGED <<main, lydmods, last, rec>>

(* MAIN SHM UNLOCK *)
UnlockMain(t) ==
    /\ lk.th[t].pc = "U3"
    /\ main' = [main EXCEPT !.lock = sr_rwunlock(@, IF lk.th[t].mode = "READ" THEN "READ" ELSE "WRITE")]
    /\ lk' = [lk EXCEPT !.th[t].pc = "U4"]
    /\ UNCHANGED <<ext, lydmods, last, rec>>

(* the thread is back in the caller: of the nested call, or of the first *)
Returned(me) ==
    IF me.depth = 2 THEN [me EXCEPT !.pc = "held", !.depth = 1] ELSE [me EXCEPT !.pc = "idle", !.depth = 0]

(* REMAP UNLOCK *)
UnlockRemapLock(t) ==
    /\ lk.th[t].pc = "U4"
    /\ lk' = [lk EXCEPT !.remap[ConnOf(t)] = sr_rwunlock(@, IF lk.th[t].remap THEN "WRITE" ELSE "READ"),
                        !.th[t] = IF @.lydmods THEN [@ EXCEPT !.pc = "U5"] ELSE Returned(@)]
    /\ UNCHANGED <<main, ext, lydmods, last, rec>>

(* LYDMODS UNLOCK *)
UnlockLydmods(t) ==
    /\ lk.th[t].pc = "U5"
    /\ main' = [main EXCEPT !.lydmods_lock = 0]
    /\ lk' = [lk EXCEPT !.th[t] = Returned(@)]
    /\ UNCHANGED <<ext, lydmods, last, rec>>

ThreadStep(t) ==
    \/ Call(t)
    \/ CallNested(t)
    \/ LockRemapLock(t)
    \/ LockMain(t)
    \/ RemapShm(t)
    \/ LockLydmods(t)
    \/ StoreLock(t)
    \/ IncRcount(t)
    \/ HeldAddEvpipe(t)
    \/ CallUnlock(t)
    \/ DecRcount(t)
    \/ UnlockMain(t)
    \/ UnlockRemapLock(t)
    \/ UnlockLydmods(t)

NextLock == \E t \in Threads : ThreadStep(t) /\ UNCHANGED rp

SpecLock == InitLock /\ [][NextLock]_vars

(* one thread for each connection *)
NextNested == \E t \in {1, 3} : ThreadStep(t) /\ UNCHANGED rp

SpecNested == InitLock /\ [][NextNested]_vars

(***************************************************************************)
(* Installs only: the catalog grows module by module.                      *)
(***************************************************************************)
NextCatalog == Add(MaxCatalogMods, MaxCatalogSize) /\ UNCHANGED rp

SpecCatalog == Init /\ [][NextCatalog]_vars

(***************************************************************************)
(* Connection state only: the connections and their event pipes.           *)
(***************************************************************************)
NextConn ==
    \/ StateAddConn /\ Fits(MaxConnSize, MaxConnObjs) /\ UNCHANGED rp
    \/ StateDelConn /\ UNCHANGED rp
    \/ StateAddEvpipe /\ Fits(MaxConnSize, MaxConnObjs) /\ UNCHANGED rp
    \/ StateDelEvpipe /\ UNCHANGED rp

SpecConn == Init /\ [][NextConn]_vars

(***************************************************************************)
(* The subscriptions of one RPC, of two event pipes of one connection.     *)
(***************************************************************************)
NextBulk ==
    \/ main.conn_count = 0 /\ StateAddConn /\ Fits(MaxBulkSize, MaxBulkObjs) /\ UNCHANGED rp
    \/ main.rpc_sub_count = 0 /\ StateAddEvpipe /\ last'.err = "OK" /\ Fits(MaxBulkSize, MaxBulkObjs) /\ UNCHANGED rp
    \/ main.rpc_sub_count = 0 /\ main.new_evpipe_num > MaxEvpipe /\ AddRpc /\ Fits(MaxBulkSize, MaxBulkObjs) /\ UNCHANGED rp
    \/ RpcSubscriptionAddUpTo(MaxBulkSub) /\ Fits(MaxBulkSize, MaxBulkObjs) /\ UNCHANGED rp
    \/ RpcSubscriptionDel /\ UNCHANGED rp

SpecBulk == Init /\ [][NextBulk]_vars

(***************************************************************************)
(* Installs into a catalog whose modules have subscriptions.  An internal  *)
(* error ends the run.                                                     *)
(***************************************************************************)
NextInstall ==
    \/ main.conn_count = 0 /\ StateAddConn /\ Fits(MaxInstallSize, MaxInstallObjs) /\ UNCHANGED rp
    \/ main.new_evpipe_num = 1 /\ StateAddEvpipe /\ last'.err = "OK" /\ Fits(MaxInstallSize, MaxInstallObjs) /\ UNCHANGED rp
    \/ last.err = "OK" /\ Add(MaxMods, MaxInstallSize) /\ Fits(MaxInstallSize, MaxInstallObjs) /\ UNCHANGED rp
    \/ last.err = "OK" /\ ModSubAdd /\ Fits(MaxInstallSize, MaxInstallObjs) /\ UNCHANGED rp

SpecInstall == Init /\ [][NextInstall]_vars

C2_OffsetsValid ==
    /\ \A r \in Refs(S) :
          /\ r.off \in DOMAIN ext.mem
          /\ ext.mem[r.off].t = r.t
          /\ r.t # "str" => Len(ext.mem[r.off].v) >= r.n
          /\ r.off >= Sizeof.size_t
          /\ r.off + ObjSize(ext.mem[r.off]) <= ext.size
    /\ ~last.oob

(***************************************************************************)
(* C3.  In every reachable state sr_shmmain_ext_defrag writes exactly      *)
(* ext_size - wasted bytes into the new buffer: its final size check       *)
(* passes and it returns the buffer, not an internal error.                *)
(***************************************************************************)
C3_DefragReturnsBuffer == last.op = "ext_defrag" => last.err = "OK"

(***************************************************************************)
(* C4.  Once a defragmentation has been swapped in, the wasted counter is  *)
(* 0 and a second defragmentation produces the same Ext SHM image and      *)
(* leaves every offset of Main SHM as it is.                               *)
(***************************************************************************)
C4_DefragFixedPoint ==
    last.op = "ext_defrag" /\ last.err = "OK" =>
        /\ ext.wasted = 0
        /\ \E r \in {sr_shmmain_ext_defrag(S)} : r.err = "OK" /\ r.buf = ext /\ r.main = main

(* a defragmentation has compacted a module with dependencies, a           *)
(* connection that gave up an event pipe, and a subscribed RPC             *)
C4_Witness ==
    /\ last.op = "ext_defrag" /\ last.err = "OK"
    /\ Len(main.mods) > 0
    /\ main.conn_count > 0 /\ main.new_evpipe_num > 1
    /\ main.rpc_sub_count > 0

(***************************************************************************)
(* C5.  A connection that holds the shared Main lock gets it again through *)
(* sr_shmmain_lock_remap(READ) without waiting, also while the other       *)
(* connection waits for the exclusive Main lock: both read locks of the    *)
(* nested call are granted at once, main_rcount counts the calls that have *)
(* returned, and back in the caller of the first call main_rcount is 0 and *)
(* the lock summary is NONE.                                               *)
(***************************************************************************)
C5_NestedRead ==
    \A t \in {1, 3} :
        /\ lk.th[t].depth = 2 /\ lk.th[t].pc = "L1" => sr_rwlock(lk.remap[ConnOf(t)], "READ", t).ok
        /\ lk.th[t].depth = 2 /\ lk.th[t].pc = "L2" => sr_rwlock(main.lock, "READ", t).ok
        /\ lk.th[t].pc = "held" /\ lk.th[t].mode = "READ" =>
              /\ ConnRec(ConnOf(t)).main_rcount = lk.th[t].depth
              /\ ConnRec(ConnOf(t)).lock_main = "READ"
        /\ lk.th[t].pc = "idle" =>
              /\ ConnRec(ConnOf(t)).main_rcount = 0
              /\ ConnRec(ConnOf(t)).lock_main = "NONE"

(* the nested call has returned while the thread of the other connection   *)
(* waits for the exclusive lock of Main SHM                                *)
C5_Witness ==
    /\ lk.th[1].pc = "held" /\ lk.th[1].depth = 2
    /\ lk.th[3].pc = "L2" /\ lk.th[3].mode = "WRITE"
    /\ ~sr_rwlock(main.lock, "WRITE", 3).ok

(***************************************************************************)
(* C6.  Whenever no thread of a connection is inside sr_shmmain_lock_remap *)
(* or sr_shmmain_unlock, main_rcount of the connection record is the       *)
(* number of shared Main locks its threads hold, and the lock summary is   *)
(* READ exactly when main_rcount is not 0.                                 *)
(***************************************************************************)
C6_RcountIsHeld ==
    \A c \in Ctxs :
        (\A t \in Threads : ConnOf(t) = c => lk.th[t].pc \in {"idle", "held"}) =>
            /\ ConnRec(c).main_rcount =
                   SumSeq([t \in Threads |->
                              IF ConnOf(t) = c /\ lk.th[t].pc = "held" /\ lk.th[t].mode = "READ"
                              THEN lk.th[t].depth ELSE 0])
            /\ ConnRec(c).lock_main = "READ" <=> ConnRec(c).main_rcount # 0

(***************************************************************************)
(* C7.  The locks are taken in the order ext_remap_lock, main_shm.lock,    *)
(* main_shm.lydmods_lock and given back in the reverse order: at every     *)
(* moment a thread that holds lydmods_lock holds main_shm.lock, and a      *)
(* thread that holds main_shm.lock holds ext_remap_lock.                   *)
(***************************************************************************)
C7_LockOrder ==
    \A t \in Threads :
        LET HoldsRemap == lk.th[t].depth = 2 \/ lk.th[t].pc \in {"L2", "L3", "L4", "L5", "L6", "held", "U2", "U3", "U4"}
            HoldsMain == lk.th[t].depth = 2 \/ lk.th[t].pc \in {"L3", "L4", "L5", "L6", "held", "U2", "U3"}
            HoldsLydmods == main.lydmods_lock = t
        IN (HoldsLydmods => HoldsMain) /\ (HoldsMain => HoldsRemap)

(***************************************************************************)
(* C8.  In every reachable state at most one connection record has the     *)
(* lock summary WRITE, and then no other record has the summary READ.      *)
(***************************************************************************)
C8_OneWriter ==
    \A c \in Ctxs, d \in Ctxs :
        ConnRec(c).lock_main = "WRITE" /\ d # c => ConnRec(d).lock_main = "NONE"

(***************************************************************************)
(* C9.  The Ext SHM mapping of a connection changes only while the         *)
(* ext_remap_lock of that connection is held in exclusive mode.            *)
(***************************************************************************)
C9_RemapUnderWriteLock ==
    [][\A c \in Ctxs : lk'.mapped[c] # lk.mapped[c] => lk.remap[c].mutex # 0]_vars

(***************************************************************************)
(* C10.  After sr_shmmain_state_recover has run with the set D of the      *)
(* connections whose process is gone: no connection record of D is left;   *)
(* the records of the other connections are there with the conn_ctx, pid,  *)
(* event pipes and lock summary they had; every subscription on an event   *)
(* pipe that no connection of D owned is still there, as often as before.  *)
(***************************************************************************)
C10_RecoverKeepsLive ==
    rec.swept =>
        LET Kept(s) == {x.d : x \in {y \in Subscriptions(s) : y.d.evpipe_num \notin DeadEvpipes(rec.pre, rec.alive)}}
            Count(s, d) == Cardinality({x \in Subscriptions(s) : x.d = d})
        IN /\ \A v \in ConnViews(S) : v.pid \in rec.alive
           /\ ConnViews(S) = {v \in ConnViews(rec.pre) : v.pid \in rec.alive}
           /\ main.conn_count = Cardinality({v \in ConnViews(rec.pre) : v.pid \in rec.alive})
           /\ \A d \in Kept(rec.pre) : Count(S, d) = Count(rec.pre, d)

(* the sweep has removed the first of two connection records, with a read  *)
(* lock, an event pipe and a subscription; the other connection had an     *)
(* event pipe with a subscription too                                      *)
C10_Witness ==
    /\ rec.swept
    /\ rec.pre.main.conn_count = 2
    /\ Conns(rec.pre)[1].pid \notin rec.alive
    /\ Conns(rec.pre)[1].lock_main = "READ"
    /\ Conns(rec.pre)[1].evpipe_count > 0
    /\ main.conn_count = 1
    /\ \E x \in Subscriptions(rec.pre) : x.d.evpipe_num \in DeadEvpipes(rec.pre, rec.alive)
    /\ \E x \in Subscriptions(S) : x.d.evpipe_num \notin DeadEvpipes(rec.pre, rec.alive)

(***************************************************************************)
(* C11.  sr_shmmain_state_recover returns no error when it cleans up after *)
(* dead connections, whatever their lock summary was, NONE included.       *)
(***************************************************************************)
C11_RecoverNoError == rec.swept => last.err = "OK"

(***************************************************************************)
(* C12.  Once a process with a connection, an event pipe and an            *)
(* operational subscription is killed, the next successful                 *)
(* sr_shmmain_lock_remap(READ) of a surviving process returns with no      *)
(* connection record of the dead process and with no operational           *)
(* subscription on one of its event pipes.                                 *)
(***************************************************************************)
C12_LockSweepsDead ==
    last.op = "lock_remap" =>
        /\ \A v \in ConnViews(S) : v.pid \in rec.alive
        /\ \A x \in Subscriptions(S) : x.d.in[1] = "oper" => x.d.evpipe_num \notin DeadEvpipes(S, rec.alive)

(***************************************************************************)
(* C13.  After sr_shmmain_state_recover has run on a state where every RPC *)
(* had a subscription, no RPC subscription carries an event pipe that a    *)
(* dead connection owned and no RPC record is left without subscriptions.  *)
(***************************************************************************)
C13_NoDeadRpcSubs ==
    rec.swept /\ (\A k \in DOMAIN Rpcs(rec.pre) : Rpcs(rec.pre)[k].sub_count > 0) =>
        /\ \A x \in Subscriptions(S) :
              x.d.in[1] = "rpc" => x.d.evpipe_num \notin DeadEvpipes(rec.pre, rec.alive)
        /\ \A k \in DOMAIN Rpcs(S) : Rpcs(S)[k].sub_count > 0

(***************************************************************************)
(* C14.  For every dead connection that sr_shmmain_state_recover removes,  *)
(* sr_shmmod_oper_stored_del_conn is called with the conn_ctx and pid of   *)
(* that connection, and never with those of a connection whose process     *)
(* exists.                                                                 *)
(***************************************************************************)
C14_ErasesTheDead ==
    rec.swept =>
        /\ Len(rec.erased) = Cardinality({v \in ConnViews(rec.pre) : v.pid \notin rec.alive})
        /\ \A n \in DOMAIN rec.erased :
              /\ rec.erased[n].pid = rec.erased[n].dead
              /\ rec.erased[n].conn_ctx = rec.erased[n].dead
              /\ rec.erased[n].pid \notin rec.alive

(***************************************************************************)
(* C15.  Module records never move: over every operation, sr_shmmain_add   *)
(* included, every module record stays at its index in Main SHM with its   *)
(* name, and sr_shmmain_find_module(name) finds the same record after the  *)
(* operation as before it.                                                 *)
(***************************************************************************)
C15_ModulesStay ==
    [][\A i \in DOMAIN main.mods :
          /\ i \in DOMAIN main'.mods
          /\ Str(ext', main'.mods[i].name) = Str(ext, main.mods[i].name)
          /\ sr_shmmain_find_module(S', Str(ext, main.mods[i].name), 0)
                 = sr_shmmain_find_module(S, Str(ext, main.mods[i].name), 0)
          /\ sr_shmmain_find_module(S, Str(ext, main.mods[i].name), 0) = i]_vars

(* a second install has added a record after the first and has rebuilt the *)
(* dependencies of the first module                                        *)
C15_Witness ==
    /\ Len(main.mods) = 2
    /\ main.mods[1].inv_data_dep_count > 0
    /\ last.err = "OK"
    /\ sr_shmmain_find_module(S, ModNames[1], 0) = 1
    /\ sr_shmmain_find_module(S, ModNames[2], 0) = 2

(***************************************************************************)
(* C16.  After every successful sr_shmmain_add, for every data dependency  *)
(* of a module A that names a module B, the inverse data dependencies of B *)
(* hold the name of A.                                                     *)
(***************************************************************************)
C16_InverseOfForward ==
    last.err = "OK" =>
        \A i \in DOMAIN main.mods :
            \A k \in 1 .. main.mods[i].data_dep_count :
                Arr(ext, main.mods[i].data_deps)[k].module # 0 =>
                    \E j \in DOMAIN main.mods :
                        /\ main.mods[j].name = Arr(ext, main.mods[i].data_deps)[k].module
                        /\ \E n \in 1 .. main.mods[j].inv_data_dep_count :
                              Arr(ext, main.mods[j].inv_data_deps)[n] = main.mods[i].name

(* the second module was installed with a dependency on the first *)
C16_Witness ==
    /\ last.err = "OK"
    /\ Len(main.mods) = 2
    /\ main.mods[2].data_dep_count > 0
    /\ Arr(ext, main.mods[2].data_deps)[1].module = main.mods[1].name
    /\ main.mods[1].inv_data_dep_count = 1

(***************************************************************************)
(* C17 (invariant I3).  After every successful install, module X is among  *)
(* the inverse data dependencies of module B exactly when B is reached     *)
(* from X through one or more data dependencies.                           *)
(***************************************************************************)
C17_InverseIsClosure ==
    last.err = "OK" =>
        LET Mods == DOMAIN main.mods
            Fwd == {p \in Mods \X Mods :
                       \E k \in 1 .. main.mods[p[1]].data_dep_count :
                           Arr(ext, main.mods[p[1]].data_deps)[k].module = main.mods[p[2]].name}
            Inv == {p \in Mods \X Mods :
                       \E n \in 1 .. main.mods[p[2]].inv_data_dep_count :
                           Arr(ext, main.mods[p[2]].inv_data_deps)[n] = main.mods[p[1]].name}
            RECURSIVE Closure(_, _)
            Closure(R, n) ==
                IF n = 0 THEN R
                ELSE Closure(R \cup {<<x[1][1], x[2][2]>> : x \in {y \in R \X R : y[1][2] = y[2][1]}}, n - 1)
        IN Inv = Closure(Fwd, Len(main.mods))

(***************************************************************************)
(* C18.  sr_shmmain_state_add_evpipe called with a (conn, pid) that no     *)
(* connection record matches returns NOT_FOUND and leaves Ext SHM as it    *)
(* was: its size, the wasted counter, every connection record and every    *)
(* event pipe array.                                                       *)
(***************************************************************************)
C18_AddEvpipeNotFound ==
    [][last'.op = "state_add_evpipe" =>
          /\ last'.err = "NOT_FOUND"
          /\ ext' = ext]_vars

(* the call has failed for the process forked from a connection that has   *)
(* an event pipe                                                           *)
C18_Witness ==
    /\ last.op = "state_add_evpipe" /\ last.err = "NOT_FOUND"
    /\ \E i \in DOMAIN Conns(S) : Conns(S)[i].evpipe_count > 0
    /\ ext.wasted > 0

(* C19: removing, by xpath and priority, an RPC subscription that does not *)
(* exist fails with the not_found error, and leaves the subscription       *)
(* arrays, their counts and the wasted counter as they were.               *)
C19_DelMissingNotFound ==
    [][last'.op = "rpc_subscription_del" =>
          /\ last'.err = "NOT_FOUND"
          /\ ext' = ext
          /\ main' = main]_vars

(* C20: on an RPC without subscriptions, subscribing (xpath, priority) and *)
(* then unsubscribing the same pair leaves sub_count = 0 and subs = 0,     *)
(* signals last_removed, and grows wasted by one subscription record plus  *)
(* the xpath with its terminator.                                          *)
C20_AddDelSymmetric ==
    \A k \in DOMAIN Rpcs(S) : \A xpath \in XPaths, priority \in Priorities, evpipe_num \in 1 .. MaxEvpipe :
        Rpcs(S)[k].sub_count = 0 =>
            \E a \in {Normalize(sr_shmmain_rpc_subscription_add(S, k, xpath, priority, 0, evpipe_num))} :
            \E d \in {sr_shmmain_rpc_subscription_del(a, k, xpath, priority, 0, FALSE)} :
                /\ Rpcs(a)[k].sub_count = 1
                /\ d.err = "OK"
                /\ Rpcs(d.s)[k].sub_count = 0
                /\ Rpcs(d.s)[k].subs = 0
                /\ d.last_removed = 1
                /\ d.s.ext.wasted = ext.wasted + Sizeof.sr_rpc_sub_t + Len(xpath) + 1

(* the subscription "/yy" of a fresh RPC was added and then removed: the   *)
(* removal signalled last_removed and wasted holds just that subscription  *)
C20_Witness ==
    /\ last.out = 1
    /\ last.err = "OK"
    /\ main.rpc_sub_count > 0
    /\ \A k \in DOMAIN Rpcs(S) : Rpcs(S)[k].sub_count = 0 /\ Rpcs(S)[k].subs = 0
    /\ ext.wasted = Sizeof.sr_rpc_sub_t + Len("/yy") + 1

(* C21: when sr_shmmain_ext_defrag or sr_shmmain_add fails part-way, the   *)
(* anchors and offsets of Main SHM are those of before the call, and Ext   *)
(* SHM still holds the objects they refer to.                              *)
C21_FailedMutationKeepsMain ==
    [][last'.op \in {"ext_defrag", "add"} /\ last'.err # "OK" =>
          /\ main' = main
          /\ \A r \in Refs(S) : r.off \in DOMAIN ext'.mem /\ ext'.mem[r.off] = ext.mem[r.off]]_vars

(* C22: sr_shmmain_state_add_conn keeps the records of the connection      *)
(* array in their order and appends one for the caller (its conn_ctx and   *)
(* PID, no evpipes, lock summary NONE, main_rcount 0); conn_count grows by *)
(* 1, the array is at the old end of Ext SHM and the old array is wasted.  *)
C22_AddConnAppends ==
    [][main'.conn_count = main.conn_count + 1 =>
          /\ main'.conns = ext.size
          /\ ext'.size = ext.size + main'.conn_count * Sizeof.sr_conn_state_t
          /\ ext'.wasted = ext.wasted + main.conn_count * Sizeof.sr_conn_state_t
          /\ SubSeq(Conns(S'), 1, main.conn_count) = Conns(S)
          /\ \E c \in Ctxs :
                /\ sr_shmmain_state_find_conn(S, c, c) = 0
                /\ Conns(S')[main'.conn_count] =
                       [conn_ctx |-> c, pid |-> c, evpipes |-> 0, evpipe_count |-> 0,
                        lock_main |-> "NONE", main_rcount |-> 0]]_vars

(* a second connection was just added behind one that has an event pipe *)
C22_Witness ==
    /\ main.conn_count = 2
    /\ main.conns + 2 * Sizeof.sr_conn_state_t = ext.size
    /\ Conns(S)[1].evpipe_count > 0
    /\ Conns(S)[2].evpipe_count = 0
    /\ ext.wasted >= Sizeof.sr_conn_state_t

(* C23: sr_shmmain_state_del_conn of a (conn, pid) of the array removes    *)
(* that record and keeps the set of the others, adds the evpipe array and  *)
(* the record to wasted and clears the anchor with the last record; for a  *)
(* (conn, pid) that is not in the array nothing changes.                   *)
C23_DelConnRemovesOne ==
    \A c \in Ctxs : \A pid \in Pids(c) :
        \E d \in {sr_shmmain_state_del_conn(S, c, pid)} :
            IF sr_shmmain_state_find_conn(S, c, pid) = 0 THEN d = S
            ELSE /\ d.main.conn_count = main.conn_count - 1
                 /\ {Conns(d)[i] : i \in DOMAIN Conns(d)} = {Conns(S)[i] : i \in DOMAIN Conns(S)} \ {ConnRec(c)}
                 /\ \A i \in DOMAIN Conns(d) : Arr(d.ext, Conns(d)[i].evpipes) = Arr(ext, Conns(d)[i].evpipes)
                 /\ d.ext.wasted = ext.wasted + ConnRec(c).evpipe_count * Sizeof.uint32_t
                                       + Sizeof.sr_conn_state_t
                 /\ d.ext.size = ext.size
                 /\ d.main.conns = (IF d.main.conn_count = 0 THEN 0 ELSE main.conns)
                 /\ [d.main EXCEPT !.conns = 0, !.conn_count = 0] = [main EXCEPT !.conns = 0, !.conn_count = 0]

(* record 1 of 2, which had an event pipe, was removed: the record that    *)
(* was last is alone in the array it was in                                *)
C23_Witness ==
    /\ main.conn_count = 1
    /\ ext.size >= main.conns + 2 * Sizeof.sr_conn_state_t
    /\ Conns(S)[1].conn_ctx = 2
    /\ ext.wasted >= 2 * Sizeof.sr_conn_state_t + Sizeof.uint32_t
    /\ main.new_evpipe_num = 2
    /\ Conns(S)[1].evpipe_count = 0

(* the event pipe ids a connection record owns *)
EvpipeIds(s, conn_s) ==
    {Arr(s.ext, conn_s.evpipes)[n] : n \in 1 .. conn_s.evpipe_count}

(* C24: for a registered connection sr_shmmain_state_add_evpipe(id) and    *)
(* then sr_shmmain_state_del_evpipe(id) leave its set of event pipe ids as *)
(* it was and every other connection with its event pipes untouched, and   *)
(* the anchor is 0 when the count is back at 0; sr_shmmain_state_del_evpipe *)
(* of an id the connection does not own changes nothing.                   *)
C24_AddDelEvpipe ==
    \A c \in Ctxs : \A id \in 1 .. MaxEvpipe + 1 :
        sr_shmmain_state_find_conn(S, c, c) # 0 =>
            \E i \in {sr_shmmain_state_find_conn(S, c, c)} :
            \E a \in {Normalize(sr_shmmain_state_add_evpipe(S, c, c, id).s)} :
            \E d \in {sr_shmmain_state_del_evpipe(a, c, c, id)} :
                /\ id \in EvpipeIds(a, Conns(a)[i])
                /\ EvpipeIds(d, Conns(d)[i]) = EvpipeIds(S, Conns(S)[i])
                /\ Conns(d)[i].evpipe_count = Conns(S)[i].evpipe_count
                /\ Conns(d)[i].evpipe_count = 0 => Conns(d)[i].evpipes = 0
                /\ d.main = main
                /\ \A j \in DOMAIN Conns(S) :
                      j # i => /\ Conns(d)[j] = Conns(S)[j]
                               /\ Arr(d.ext, Conns(d)[j].evpipes) = Arr(ext, Conns(S)[j].evpipes)
                /\ id \notin EvpipeIds(S, Conns(S)[i]) => sr_shmmain_state_del_evpipe(S, c, c, id) = S

(* connection 2 got event pipe 1, then connection 1 got event pipe 2 and   *)
(* lost it again                                                           *)
C24_Witness ==
    /\ main.conn_count = 2
    /\ main.new_evpipe_num = 3
    /\ \E i, j \in DOMAIN Conns(S) :
          /\ Conns(S)[i].conn_ctx = 1 /\ Conns(S)[i].evpipe_count = 0 /\ Conns(S)[i].evpipes = 0
          /\ Conns(S)[j].conn_ctx = 2 /\ EvpipeIds(S, Conns(S)[j]) = {1}
    /\ ext.wasted = Sizeof.sr_conn_state_t + Sizeof.uint32_t

(* the subscriptions of an RPC record *)
RpcSubs(s, r) == Take(Arr(s.ext, r.subs), r.sub_count)

(* C25: sr_shmmain_rpc_subscription_del with all_evpipe removes the        *)
(* subscriptions of the RPC that have the event pipe id and no other,      *)
(* wherever they are in the array; every removed one adds its record and   *)
(* its xpath to wasted; the call succeeds when nothing matches; and        *)
(* last_removed is set exactly when the count dropped to 0 in the call.    *)
C25_BulkDel ==
    \A k \in DOMAIN Rpcs(S) : \A id \in 1 .. MaxEvpipe :
        \E d \in {sr_shmmain_rpc_subscription_del(S, k, "", 0, id, TRUE)} :
        \E old \in {RpcSubs(S, Rpcs(S)[k])} :
        \E gone \in {{n \in DOMAIN old : old[n].evpipe_num = id}} :
        \E new \in {RpcSubs(d.s, Rpcs(d.s)[k])} :
            /\ d.err = "OK"
            /\ Len(new) = Len(old) - Cardinality(gone)
            /\ {new[n] : n \in DOMAIN new} = {old[n] : n \in DOMAIN old \ gone}
            /\ \A n \in DOMAIN new : Str(d.s.ext, new[n].xpath) = Str(ext, new[n].xpath)
            /\ d.s.ext.wasted = ext.wasted
                   + SumSeq([n \in DOMAIN old |->
                                IF n \in gone THEN Sizeof.sr_rpc_sub_t + Len(Str(ext, old[n].xpath)) + 1 ELSE 0])
            /\ d.last_removed = (IF Len(old) > 0 /\ Len(new) = 0 THEN 1 ELSE 0)
            /\ \A j \in DOMAIN Rpcs(S) : j # k => Rpcs(d.s)[j] = Rpcs(S)[j]

(* event pipe 1 had the first and the last of three subscriptions: the one *)
(* of event pipe 2 is left, and the two records with their xpaths are      *)
(* wasted on top of the arrays that were moved                             *)
C25_Witness ==
    /\ main.rpc_sub_count = 1
    /\ Rpcs(S)[1].sub_count = 1
    /\ RpcSubs(S, Rpcs(S)[1])[1].evpipe_num = 2
    /\ ext.size >= Rpcs(S)[1].subs + 3 * Sizeof.sr_rpc_sub_t
    /\ last.op = "" /\ last.out = 0
    /\ ext.wasted >= Sizeof.uint32_t + 3 * Sizeof.sr_rpc_sub_t + 2 * (Sizeof.sr_rpc_sub_t + 3)

(* C26: sr_shmmain_del_rpc removes the RPC record found by op_path or by   *)
(* the offset of op_path and leaves the other RPC records, their op_path   *)
(* and their subscriptions as they were; the record and its op_path are    *)
(* added to wasted, the anchor is cleared with the last RPC; when the RPC  *)
(* is not found it fails and nothing changes.                              *)
C26_DelRpcRemovesOne ==
    \A op_path \in OpPaths, by_off \in BOOLEAN :
        \E k \in {sr_shmmain_find_rpc(S, op_path, 0)} :
        \E d \in {IF by_off /\ k # 0 THEN sr_shmmain_del_rpc(S, "", Rpcs(S)[k].op_path)
                  ELSE sr_shmmain_del_rpc(S, op_path, 0)} :
            IF k = 0 THEN d.err # "OK" /\ d.s = S
            ELSE /\ d.err = "OK"
                 /\ d.s.main.rpc_sub_count = main.rpc_sub_count - 1
                 /\ {Rpcs(d.s)[j] : j \in DOMAIN Rpcs(d.s)} = {Rpcs(S)[j] : j \in DOMAIN Rpcs(S) \ {k}}
                 /\ \A off \in DOMAIN ext.mem \ {main.rpc_subs} : d.s.ext.mem[off] = ext.mem[off]
                 /\ d.s.ext.wasted = ext.wasted + Sizeof.sr_rpc_t + Len(op_path) + 1
                 /\ d.s.ext.size = ext.size
                 /\ d.s.main.rpc_subs = (IF d.s.main.rpc_sub_count = 0 THEN 0 ELSE main.rpc_subs)
                 /\ [d.s.main EXCEPT !.rpc_subs = 0, !.rpc_sub_count = 0]
                        = [main EXCEPT !.rpc_subs = 0, !.rpc_sub_count = 0]

(* the first of two RPCs was removed: the one that was last is alone in    *)
(* the array of two, the moved array, the record and its path are wasted   *)
C26_Witness ==
    /\ main.rpc_sub_count = 1
    /\ ext.size >= main.rpc_subs + 2 * Sizeof.sr_rpc_t
    /\ Rpcs(S)[1].op_path = main.rpc_subs + 2 * Sizeof.sr_rpc_t
    /\ ext.wasted >= 2 * Sizeof.sr_rpc_t + 3
    /\ last.err = "OK"

(* C27: in sr_shmmain_add the size of Ext SHM computed up front (the       *)
(* wasted counter word, the live connection state, RPCs and subscriptions, *)
(* the content of the new catalog, plus wasted) is the end reached after   *)
(* the install, also when modules have operational or notification         *)
(* subscriptions, and the final check passes.                              *)
C27_AddSizeExact ==
    [][lydmods' # lydmods =>
          /\ last'.err = "OK"
          /\ ext'.size = Sizeof.size_t + LiveBytes(S') + ext'.wasted]_vars

(* the dependencies stored for a module record, read back through the      *)
(* offsets: data dependencies [kind, module, xpath], the names of the      *)
(* inverse dependencies, op dependencies [xpath, in, out]                  *)
ModDepsRead(s, m) ==
    LET e == s.ext
        Name(off) == IF off = 0 THEN "" ELSE Str(e, off)
        Dep(d) == [kind |-> IF d.type = "REF" THEN "module" ELSE "inst-id",
                   module |-> Name(d.module), xpath |-> Name(d.xpath)]
        Deps(off, n) == [k \in 1 .. n |-> Dep(Arr(e, off)[k])]
        Op(o) == [xpath |-> Name(o.xpath), in |-> Deps(o.in_deps, o.in_dep_count),
                  out |-> Deps(o.out_deps, o.out_dep_count)]
    IN [data_deps |-> Deps(m.data_deps, m.data_dep_count),
        inv_deps |-> [n \in 1 .. m.inv_data_dep_count |-> Name(Arr(e, m.inv_data_deps)[n])],
        op_deps |-> [k \in 1 .. m.op_dep_count |-> Op(Arr(e, m.op_deps)[k])]]

(* C28: sr_shmmain_add rebuilds the dependencies of all the modules: it    *)
(* adds to wasted the bytes of every data dependency array, inverse        *)
(* dependency array and op dependency array there was, with their input    *)
(* and output arrays and xpaths, and afterwards the dependencies of every  *)
(* module are those of the new tree.                                       *)
C28_AddRebuildsDeps ==
    [][lydmods' # lydmods =>
          LET DepBytes(d) == Sizeof.sr_mod_data_dep_t + (IF d.xpath # "" THEN Len(d.xpath) + 1 ELSE 0)
              OpBytes(o) == Sizeof.sr_mod_op_dep_t + Len(o.xpath) + 1
                                + SumSeq([k \in DOMAIN o.in |-> DepBytes(o.in[k])])
                                + SumSeq([k \in DOMAIN o.out |-> DepBytes(o.out[k])])
              OldBytes(m) == SumSeq([k \in DOMAIN m.data_deps |-> DepBytes(m.data_deps[k])])
                                 + Len(m.inv_deps) * Sizeof.off_t
                                 + SumSeq([k \in DOMAIN m.op_deps |-> OpBytes(m.op_deps[k])])
              Tree(m) == [data_deps |-> m.data_deps, inv_deps |-> m.inv_deps,
                          op_deps |-> [k \in DOMAIN m.op_deps |->
                                          [xpath |-> m.op_deps[k].xpath, in |-> m.op_deps[k].in,
                                           out |-> m.op_deps[k].out]]]
          IN /\ last'.err = "OK"
             /\ ext'.wasted = ext.wasted + SumSeq([i \in DOMAIN lydmods |-> OldBytes(lydmods[i])])
             /\ Len(main'.mods) = Len(lydmods')
             /\ \A i \in DOMAIN lydmods' : ModDepsRead(S', main'.mods[i]) = Tree(lydmods'[i])]_vars

(* the third module depends on the first, which had an inverse dependency  *)
(* already: its old array is wasted                                        *)
C28_Witness ==
    /\ Len(main.mods) = 3
    /\ last.err = "OK"
    /\ ModDepsRead(S, main.mods[1]).inv_deps = <<ModNames[2], ModNames[3]>>
    /\ ext.wasted > 0

(* the module references the dependency arrays of the module records hold: *)
(* the data deps, the input and output data deps of the op deps and the    *)
(* inverse deps; -1 stands for an entry the record counts but that is no   *)
(* entry of such an array in Ext SHM                                       *)
ModuleRefs(s) ==
    LET e == s.ext
        Items(off, t) == IF off \in DOMAIN e.mem /\ e.mem[off].t = t THEN e.mem[off].v ELSE <<>>
        Entry(off, t, k) == IF k \in DOMAIN Items(off, t) THEN Items(off, t)[k] ELSE [module |-> -1]
        DepRefs(off, n) == {Entry(off, "sr_mod_data_dep_t", k).module : k \in 1 .. n}
        InvRefs(off, n) == {IF k \in DOMAIN Items(off, "off_t") THEN Items(off, "off_t")[k] ELSE -1 : k \in 1 .. n}
        OpRefs(off, n) ==
            UNION {IF k \in DOMAIN Items(off, "sr_mod_op_dep_t")
                   THEN DepRefs(Items(off, "sr_mod_op_dep_t")[k].in_deps, Items(off, "sr_mod_op_dep_t")[k].in_dep_count)
                            \cup DepRefs(Items(off, "sr_mod_op_dep_t")[k].out_deps,
                                         Items(off, "sr_mod_op_dep_t")[k].out_dep_count)
                   ELSE {-1} : k \in 1 .. n}
    IN UNION {DepRefs(s.main.mods[j].data_deps, s.main.mods[j].data_dep_count)
                  \cup InvRefs(s.main.mods[j].inv_data_deps, s.main.mods[j].inv_data_dep_count)
                  \cup OpRefs(s.main.mods[j].op_deps, s.main.mods[j].op_dep_count) : j \in DOMAIN s.main.mods}

(* C29: in every reachable state every non-zero module reference stored in *)
(* a data dep, in an input or output data dep of an op dep or in an        *)
(* inverse dep is the name offset of exactly one module record of Main     *)
(* SHM; and when Ext SHM holds just module "a" without dependencies and a  *)
(* second module with one data dep on "a", there are 2 module records, the *)
(* data dep holds the name offset of "a", "a" has one inverse dep holding  *)
(* the name offset of the second module, and wasted is 0.                  *)
C29_ModuleRefsResolve ==
    /\ \A ref \in ModuleRefs(S) \ {0} :
           Cardinality({j \in DOMAIN main.mods : main.mods[j].name = ref}) = 1
    /\ (/\ last.err = "OK"
        /\ ext.size = Sizeof.size_t + sr_strshmlen("a") + sr_strshmlen(ModNames[2])
                          + Sizeof.sr_mod_data_dep_t + Sizeof.off_t
        /\ Len(lydmods) = 2
        /\ lydmods[1].name = "a" /\ lydmods[1].features = <<>>
        /\ lydmods[1].data_deps = <<>> /\ lydmods[1].op_deps = <<>>
        /\ lydmods[2].features = <<>> /\ lydmods[2].op_deps = <<>>
        /\ Len(lydmods[2].data_deps) = 1 /\ lydmods[2].data_deps[1].module = "a")
       => /\ Len(main.mods) = 2
          /\ main.mods[2].data_dep_count = 1
          /\ Arr(ext, main.mods[2].data_deps)[1].module = main.mods[1].name
          /\ main.mods[1].inv_data_dep_count = 1
          /\ Arr(ext, main.mods[1].inv_data_deps) = <<main.mods[2].name>>
          /\ ext.wasted = 0

(***************************************************************************)
(* A populated Ext SHM and its defragmentation: a connection with an event *)
(* pipe, an RPC with a subscription, two modules, one module subscription. *)
(***************************************************************************)
ModSubCount(m) ==
    SumSeq([ds \in DsSet |-> m.change_sub[ds].sub_count]) + m.oper_sub_count + m.notif_sub_count

NextCompact ==
    \/ main.conn_count = 0 /\ StateAddConn /\ Fits(MaxCompactSize, MaxCompactObjs) /\ UNCHANGED rp
    \/ main.new_evpipe_num = 1 /\ StateAddEvpipe /\ last'.err = "OK" /\ Fits(MaxCompactSize, MaxCompactObjs) /\ UNCHANGED rp
    \/ Len(main.mods) = 0 /\ main.rpc_sub_count = 0 /\ AddRpc /\ Fits(MaxCompactSize, MaxCompactObjs) /\ UNCHANGED rp
    \/ Len(main.mods) = 0 /\ RpcSubscriptionAddUpTo(1) /\ last'.err = "OK" /\ Fits(MaxCompactSize, MaxCompactObjs) /\ UNCHANGED rp
    \/ last.err = "OK" /\ Add(MaxMods, MaxCompactSize) /\ Fits(MaxCompactSize, MaxCompactObjs) /\ UNCHANGED rp
    \/ /\ last.err = "OK"
       /\ \A j \in DOMAIN main.mods : ModSubCount(main.mods[j]) = 0
       /\ ModSubAdd
       /\ Fits(MaxCompactSize, MaxCompactObjs)
       /\ UNCHANGED rp
    \/ last.err = "OK" /\ ext.wasted > 0 /\ Defrag /\ UNCHANGED rp

SpecCompact == Init /\ [][NextCompact]_vars

(* what Main SHM and Ext SHM say, read through the offsets: the modules    *)
(* with their names, features, dependencies, change and operational        *)
(* subscriptions, the connections with their event pipes, the RPCs with    *)
(* their subscriptions; every xpath and name as the string it points to    *)
LogicalContent(s) ==
    LET e == s.ext
        WithXpath(q) == [k \in DOMAIN q |-> [q[k] EXCEPT !.xpath = Str(e, @)]]
        Mod(m) ==
            [name |-> Str(e, m.name),
             features |-> [k \in 1 .. m.feat_count |-> Str(e, Arr(e, m.features)[k])],
             deps |-> ModDepsRead(s, m),
             change_sub |-> [ds \in DsSet |->
                                WithXpath(Take(Arr(e, m.change_sub[ds].subs), m.change_sub[ds].sub_count))],
             oper_subs |-> WithXpath(Take(Arr(e, m.oper_subs), m.oper_sub_count))]
        Conn(c) == [pid |-> c.pid, evpipes |-> Take(Arr(e, c.evpipes), c.evpipe_count)]
        Rpc(r) == [op_path |-> Str(e, r.op_path), subs |-> WithXpath(RpcSubs(s, r))]
    IN [mods |-> [j \in DOMAIN s.main.mods |-> Mod(s.main.mods[j])],
        conns |-> [i \in DOMAIN Conns(s) |-> Conn(Conns(s)[i])],
        rpcs |-> [k \in DOMAIN Rpcs(s) |-> Rpc(Rpcs(s)[k])]]

(* C30: a defragmentation that returns its buffer, once the buffer has     *)
(* replaced Ext SHM, leaves every module with the same name, features,     *)
(* data, inverse and op dependencies (same referenced modules and xpaths), *)
(* change and operational subscriptions, every connection with the same    *)
(* pid and event pipes and every RPC with the same op_path and             *)
(* subscriptions; and the module names lie before every data dependency    *)
(* and inverse dependency array of the new Ext SHM.                        *)
C30_DefragKeepsContent ==
    [][last'.op = "ext_defrag" /\ last'.err = "OK" =>
          /\ LogicalContent(S') = LogicalContent(S)
          /\ \A j \in DOMAIN main'.mods :
                 \A r \in Refs(S') : r.t \in {"sr_mod_data_dep_t", "off_t"} => main'.mods[j].name < r.off]_vars

(* a defragmentation has compacted two modules, the second with a data dep *)
(* on the first and the first with a change subscription, a connection    *)
(* with its event pipe and an RPC with a subscription                      *)
C30_Witness ==
    /\ last.op = "ext_defrag" /\ last.err = "OK"
    /\ Len(main.mods) = 2
    /\ main.mods[1].data_dep_count > 0
    /\ main.mods[2].data_dep_count > 0
    /\ Arr(ext, main.mods[2].data_deps)[1].module = main.mods[1].name
    /\ main.mods[1].inv_data_dep_count = 1
    /\ \E ds \in DsSet : main.mods[1].change_sub[ds].sub_count > 0
    /\ main.conn_count = 1
    /\ Conns(S)[1].evpipe_count = 1
    /\ main.rpc_sub_count = 1
    /\ Rpcs(S)[1].sub_count = 1

(***************************************************************************)
(* Processes die inside sr_shmmain_lock_remap and sr_shmmain_unlock: one   *)
(* thread for each connection, a process is killed at any step of its      *)
(* thread, and a surviving process runs the sweep.                         *)
(***************************************************************************)
NextLockCrash ==
    \/ \E t \in {1, 3} : ConnOf(t) \in rec.alive /\ ~rec.swept /\ ThreadStep(t) /\ UNCHANGED rp
    \/ ~rec.swept /\ Crash /\ UNCHANGED rp
    \/ ~rec.swept /\ rec.alive # {} /\ Recover /\ UNCHANGED rp

SpecLockCrash == InitLock /\ [][NextLockCrash]_vars

(* C31: after sr_shmmain_state_recover the reader counter of the lock of   *)
(* Main SHM is the sum of main_rcount over the connection records that are *)
(* left, and it is not below 0.                                            *)
C31_ReadersAfterRecover ==
    rec.swept =>
        /\ main.lock.readers = SumSeq([i \in DOMAIN Conns(S) |-> Conns(S)[i].main_rcount])
        /\ main.lock.readers >= 0

(* C32: the assertions of the bookkeeping hold whenever a thread is about  *)
(* to evaluate them: before a shared lock is recorded the record of the    *)
(* connection has summary NONE and main_rcount 0, or summary READ and      *)
(* main_rcount above 0; before an exclusive lock is recorded its summary   *)
(* is NONE; and when a lock is released the summary is the released mode.  *)
C32_AssertionsHold ==
    \A t \in Threads :
        LET me == lk.th[t]
            conn_s == ConnRec(ConnOf(t))
        IN /\ me.pc = "L5" /\ me.mode = "READ" =>
                  \/ conn_s.lock_main = "NONE" /\ conn_s.main_rcount = 0
                  \/ conn_s.lock_main = "READ" /\ conn_s.main_rcount > 0
           /\ me.pc = "L5" /\ me.mode = "WRITE" => conn_s.lock_main = "NONE"
           /\ me.pc = "held" /\ me.mode # "WRITE_NOSTATE" => conn_s.lock_main = me.mode

(* The items sr_shmmain_ext_print collects before it sorts them: what they *)
(* are (id), where they start and the sizes they can have.  The size of an *)
(* array is its count times the size of a record; the size of a string is  *)
(* read from Ext SHM, and where no string starts it is whatever lies       *)
(* before the next zero byte, anything up to the end of the region.        *)
PrintItems(s) ==
    LET e == s.ext
        StrSizes(off) ==
            IF off \in DOMAIN e.mem /\ e.mem[off].t = "str" THEN {sr_strshmlen(e.mem[off].v)}
            ELSE 1 .. (IF e.size > off THEN e.size - off ELSE 1)
        Recs(off, t, n) == IF off \in DOMAIN e.mem /\ e.mem[off].t = t THEN Take(e.mem[off].v, n) ELSE <<>>
        Array(id, off, t, n) == {[id |-> id, start |-> off, sizes |-> {n * Sizeof[t]}]}
        String(id, off) == {[id |-> id, start |-> off, sizes |-> StrSizes(off)]}
        (* sr_shmmain_print_data_deps *)
        DataDeps(id, off, n) ==
            IF n = 0 THEN {}
            ELSE Array(id, off, "sr_mod_data_dep_t", n)
                     \cup UNION {IF Recs(off, "sr_mod_data_dep_t", n)[i].xpath # 0
                                 THEN String(id \o <<"xpath", i>>, Recs(off, "sr_mod_data_dep_t", n)[i].xpath)
                                 ELSE {} : i \in DOMAIN Recs(off, "sr_mod_data_dep_t", n)}
        Xpaths(id, off, t, n, always) ==
            UNION {IF always \/ Recs(off, t, n)[i].xpath # 0
                   THEN String(id \o <<"xpath", i>>, Recs(off, t, n)[i].xpath)
                   ELSE {} : i \in DOMAIN Recs(off, t, n)}
        ConnItems ==
            (IF s.main.conns # 0 THEN Array(<<"conns">>, s.main.conns, "sr_conn_state_t", s.main.conn_count) ELSE {})
                \cup UNION {IF c[2].evpipes # 0
                            THEN Array(<<"evpipes", c[1]>>, c[2].evpipes, "uint32_t", c[2].evpipe_count)
                            ELSE {} :
                            c \in {<<i, Recs(s.main.conns, "sr_conn_state_t", s.main.conn_count)[i]>> :
                                       i \in DOMAIN Recs(s.main.conns, "sr_conn_state_t", s.main.conn_count)}}
        RpcItem(k, r) ==
            String(<<"op_path", k>>, r.op_path)
                \cup (IF r.sub_count # 0
                      THEN Array(<<"rpc subs", k>>, r.subs, "sr_rpc_sub_t", r.sub_count)
                               \cup Xpaths(<<"rpc subs", k>>, r.subs, "sr_rpc_sub_t", r.sub_count, TRUE)
                      ELSE {})
        RpcItems ==
            IF s.main.rpc_sub_count = 0 THEN {}
            ELSE Array(<<"rpcs">>, s.main.rpc_subs, "sr_rpc_t", s.main.rpc_sub_count)
                     \cup UNION {RpcItem(k, Recs(s.main.rpc_subs, "sr_rpc_t", s.main.rpc_sub_count)[k]) :
                                 k \in DOMAIN Recs(s.main.rpc_subs, "sr_rpc_t", s.main.rpc_sub_count)}
        OpDep(id, o) ==
            String(id \o <<"xpath">>, o.xpath)
                \cup DataDeps(id \o <<"in">>, o.in_deps, o.in_dep_count)
                \cup DataDeps(id \o <<"out">>, o.out_deps, o.out_dep_count)
        ModItems(j, m) ==
            String(<<"name", j>>, m.name)
                \cup (IF m.features # 0
                      THEN Array(<<"features", j>>, m.features, "off_t", m.feat_count)
                               \cup UNION {String(<<"feature", j, i>>, Recs(m.features, "off_t", m.feat_count)[i]) :
                                           i \in DOMAIN Recs(m.features, "off_t", m.feat_count)}
                      ELSE {})
                \cup DataDeps(<<"data deps", j>>, m.data_deps, m.data_dep_count)
                \cup (IF m.inv_data_dep_count # 0
                      THEN Array(<<"inv data deps", j>>, m.inv_data_deps, "off_t", m.inv_data_dep_count)
                      ELSE {})
                \cup (IF m.op_dep_count # 0
                      THEN Array(<<"op deps", j>>, m.op_deps, "sr_mod_op_dep_t", m.op_dep_count)
                               \cup UNION {OpDep(<<"op dep", j, i>>, Recs(m.op_deps, "sr_mod_op_dep_t", m.op_dep_count)[i]) :
                                           i \in DOMAIN Recs(m.op_deps, "sr_mod_op_dep_t", m.op_dep_count)}
                      ELSE {})
                \cup UNION {IF m.change_sub[ds].sub_count # 0
                            THEN Array(<<"change subs", j, ds>>, m.change_sub[ds].subs, "sr_mod_change_sub_t",
                                       m.change_sub[ds].sub_count)
                                     \cup Xpaths(<<"change subs", j, ds>>, m.change_sub[ds].subs,
                                                 "sr_mod_change_sub_t", m.change_sub[ds].sub_count, FALSE)
                            ELSE {} : ds \in DsSet}
                \cup (IF m.oper_sub_count # 0
                      THEN Array(<<"oper subs", j>>, m.oper_subs, "sr_mod_oper_sub_t", m.oper_sub_count)
                               \cup Xpaths(<<"oper subs", j>>, m.oper_subs, "sr_mod_oper_sub_t", m.oper_sub_count, TRUE)
                      ELSE {})
    IN {[id |-> <<"ext wasted">>, start |-> 0, sizes |-> {Sizeof.size_t}]}
           \cup ConnItems \cup RpcItems
           \cup UNION {ModItems(j, s.main.mods[j]) : j \in DOMAIN s.main.mods}

(* C34: in every reachable state any two items of sr_shmmain_ext_print     *)
(* start at different offsets and the one that starts first ends at or     *)
(* before the start of the other: the assertions of sr_shmmain_print_cmp   *)
(* hold for every pair.                                                    *)
C34_PrintItemsDisjoint ==
    \A a \in PrintItems(S) : \A b \in PrintItems(S) \ {a} :
        /\ a.start # b.start
        /\ \A size \in a.sizes : a.start > b.start \/ a.start + size <= b.start

(***************************************************************************)
(* sr_shmmain_lock_remap fails.  Connection 1 is registered and used by    *)
(* threads 1 and 2; thread 3 uses connection 2, which has no record in Ext *)
(* SHM.  Thread 1 asks for read locks, thread 2 for write locks with the   *)
(* lydmods lock, thread 3 for read or WRITE_NOSTATE locks with the lydmods *)
(* lock.  A lock request times out when the lock is not free; sr_shm_remap *)
(* fails when the region cannot be mapped.  E3, E2, E1: the thread is at   *)
(* error_remap_shm_lydmods_unlock, error_remap_shm_unlock,                 *)
(* error_remap_unlock.                                                     *)
(***************************************************************************)
InitLockFail ==
    \E s \in {Normalize(sr_shmmain_state_add_conn([main |-> EmptyMain, ext |-> EmptyExt], 1, 1))} :
        /\ main = s.main
        /\ ext = s.ext
        /\ lydmods = <<>>
        /\ last = [op |-> "", err |-> "OK", oob |-> FALSE, out |-> 0]
        /\ lk = [remap |-> [c \in Ctxs |-> [mutex |-> 0, readers |-> 0]],
                 mapped |-> [c \in Ctxs |-> s.ext.size],
                 th |-> [t \in Threads |->
                           [pc |-> "idle", mode |-> "READ", remap |-> FALSE, lydmods |-> FALSE,
                            depth |-> 0, tmp |-> 0]]]
        /\ rec = [alive |-> Ctxs, swept |-> FALSE, pre |-> [main |-> EmptyMain, ext |-> EmptyExt],
                  erased |-> <<>>]
        /\ rp = [pc |-> "none", w |-> <<>>]

(* the call returns err_info *)
ReturnError(t, err) ==
    /\ lk' = [lk EXCEPT !.th[t] = Returned(@)]
    /\ last' = [op |-> "lock_remap", err |-> err, oob |-> FALSE, out |-> 0]

(* REMAP READ/WRITE LOCK times out: return err_info *)
FailRemapLock(t) ==
    /\ lk.th[t].pc = "L1"
    /\ ~sr_rwlock(lk.remap[ConnOf(t)], IF lk.th[t].remap THEN "WRITE" ELSE "READ", t).ok
    /\ ReturnError(t, "TIME_OUT")
    /\ UNCHANGED <<main, ext, lydmods, rec>>

(* MAIN SHM READ/WRITE LOCK times out: goto error_remap_unlock *)
FailMain(t) ==
    /\ lk.th[t].pc = "L2"
    /\ ~sr_rwlock(main.lock, IF lk.th[t].mode = "READ" THEN "READ" ELSE "WRITE", t).ok
    /\ lk' = [lk EXCEPT !.th[t].pc = "E1"]
    /\ last' = [op |-> "lock_remap", err |-> "TIME_OUT", oob |-> FALSE, out |-> 0]
    /\ UNCHANGED <<main, ext, lydmods, rec>>

(* sr_shm_remap fails: goto error_remap_shm_unlock *)
FailRemapShm(t) ==
    /\ lk.th[t].pc = "L3"
    /\ lk' = [lk EXCEPT !.th[t].pc = "E2"]
    /\ last' = [op |-> "lock_remap", err |-> "NO_MEMORY", oob |-> FALSE, out |-> 0]
    /\ UNCHANGED <<main, ext, lydmods, rec>>

(* LYDMODS LOCK times out: goto error_remap_shm_unlock *)
FailLydmods(t) ==
    /\ lk.th[t].pc = "L4"
    /\ main.lydmods_lock # 0
    /\ lk' = [lk EXCEPT !.th[t].pc = "E2"]
    /\ last' = [op |-> "lock_remap", err |-> "TIME_OUT", oob |-> FALSE, out |-> 0]
    /\ UNCHANGED <<main, ext, lydmods, rec>>

(* SR_CHECK_INT_GOTO(!conn_s, err_info, error_remap_shm_lydmods_unlock) *)
FailFindConn(t) ==
    /\ lk.th[t].pc = "L5"
    /\ sr_shmmain_state_find_conn(S, ConnOf(t), ConnOf(t)) = 0
    /\ lk' = [lk EXCEPT !.th[t].pc = "E3"]
    /\ last' = [op |-> "lock_remap", err |-> "INTERNAL", oob |-> FALSE, out |-> 0]
    /\ UNCHANGED <<main, ext, lydmods, rec>>

(* error_remap_shm_lydmods_unlock: LYDMODS UNLOCK if lydmods *)
ErrorUnlockLydmods(t) ==
    /\ lk.th[t].pc = "E3"
    /\ main' = IF lk.th[t].lydmods THEN [main EXCEPT !.lydmods_lock = 0] ELSE main
    /\ lk' = [lk EXCEPT !.th[t].pc = "E2"]
    /\ UNCHANGED <<ext, lydmods, last, rec>>

(* the main lock stays locked on the error path *)
ErrorUnlockMain_KeepsLock(t) ==
    /\ lk.th[t].pc = "E2"
    /\ lk' = [lk EXCEPT !.th[t].pc = "E1"]
    /\ UNCHANGED <<main, ext, lydmods, last, rec>>

(* error_remap_shm_unlock: sr_rwunlock(&main_shm->lock, mode) *)
ErrorUnlockMain(t) ==
    /\ lk.th[t].pc = "E2"
    /\ main' = [main EXCEPT !.lock = sr_rwunlock(@, IF lk.th[t].mode = "READ" THEN "READ" ELSE "WRITE")]
    /\ lk' = [lk EXCEPT !.th[t].pc = "E1"]
    /\ UNCHANGED <<ext, lydmods, last, rec>>

(* error_remap_unlock: sr_rwunlock(&conn->ext_remap_lock, ...); return *)
ErrorUnlockRemap(t) ==
    /\ lk.th[t].pc = "E1"
    /\ lk' = [lk EXCEPT !.remap[ConnOf(t)] = sr_rwunlock(@, IF lk.th[t].remap THEN "WRITE" ELSE "READ"),
                        !.th[t] = Returned(@)]
    /\ UNCHANGED <<main, ext, lydmods, last, rec>>

FailStep(t) ==
    \/ CallWith(t, CASE t = 1 -> {"READ"} [] t = 2 -> {"WRITE"} [] t = 3 -> {"READ", "WRITE_NOSTATE"},
                IF t = 3 THEN {FALSE} ELSE BOOLEAN, IF t = 1 THEN {FALSE} ELSE {TRUE})
    \/ CallNested(t)
    \/ LockRemapLock(t)
    \/ FailRemapLock(t)
    \/ LockMain(t)
    \/ FailMain(t)
    \/ RemapShm(t)
    \/ FailRemapShm(t)
    \/ LockLydmods(t)
    \/ FailLydmods(t)
    \/ StoreLock(t)
    \/ FailFindConn(t)
    \/ IncRcount(t)
    \/ ErrorUnlockLydmods(t)
    \/ ErrorUnlockMain(t)
    \/ ErrorUnlockRemap(t)
    \/ CallUnlock(t)
    \/ DecRcount(t)
    \/ UnlockMain(t)
    \/ UnlockRemapLock(t)
    \/ UnlockLydmods(t)

NextLockFail == \E t \in Threads : FailStep(t) /\ UNCHANGED rp

SpecLockFail == InitLockFail /\ [][NextLockFail]_vars

(* the locks a thread holds at its position in sr_shmmain_lock_remap and   *)
(* sr_shmmain_unlock: those of the call it is in, and those of the call it *)
(* is nested in (a read lock without remap and lydmods)                    *)
HeldLocks(t) ==
    LET me == lk.th[t]
        Outer == IF me.depth = 2 THEN 1 ELSE 0
        In(pcs) == IF me.pc \in pcs THEN 1 ELSE 0
    IN [remap |-> Outer + In({"L2", "L3", "L4", "L5", "L6", "held", "U2", "U3", "U4", "E3", "E2", "E1"}),
        main |-> Outer + In({"L3", "L4", "L5", "L6", "held", "U2", "U3", "E3", "E2"}),
        lydmods |-> IF me.lydmods THEN In({"L5", "L6", "held", "U2", "U3", "U4", "U5", "E3"}) ELSE 0]

(* the locks are held by the threads that are inside a call or between a   *)
(* successful call and its unlock, and by nobody else                      *)
LocksAccounted ==
    LET Readers(ts, which, write) ==
            SumSeq([t \in 1 .. 3 |-> IF t \in ts /\ ~write[t] THEN HeldLocks(t)[which] ELSE 0])
        Writers(ts, which, write) == {t \in ts : write[t] /\ HeldLocks(t)[which] > 0}
        MainWrite == [t \in Threads |-> lk.th[t].mode # "READ"]
        RemapWrite == [t \in Threads |-> lk.th[t].remap]
        Of(c) == {t \in Threads : ConnOf(t) = c}
    IN /\ main.lock.readers = Readers(Threads, "main", MainWrite)
       /\ Writers(Threads, "main", MainWrite) = IF main.lock.mutex = 0 THEN {} ELSE {main.lock.mutex}
       /\ \A c \in Ctxs :
              /\ lk.remap[c].readers = Readers(Of(c), "remap", RemapWrite)
              /\ Writers(Of(c), "remap", RemapWrite) = IF lk.remap[c].mutex = 0 THEN {} ELSE {lk.remap[c].mutex}
       /\ {t \in Threads : HeldLocks(t).lydmods > 0} = IF main.lydmods_lock = 0 THEN {} ELSE {main.lydmods_lock}

(* C33: when sr_shmmain_lock_remap fails, at whichever step, the thread    *)
(* returns holding none of ext_remap_lock, main_shm.lock and lydmods_lock  *)
(* of that call (the locks are held exactly by the threads inside a call   *)
(* or between a successful call and its unlock), and no step of the        *)
(* failure path changes the lock summary or main_rcount of a connection    *)
(* record.                                                                 *)
C33_ErrorReleasesLocks ==
    [][/\ LocksAccounted'
       /\ \A t \in Threads :
              /\ lk'.th[t] # lk.th[t]
              /\ \/ lk.th[t].pc \in {"E1", "E2", "E3"}
                 \/ lk'.th[t].pc \in {"E1", "E2", "E3"}
                 \/ lk.th[t].pc = "L1" /\ lk'.th[t].pc \in {"idle", "held"}
              => Conns(S') = Conns(S)]_vars

(* the thread of the connection without a record has come back with the    *)
(* internal error after it had taken the three locks, while a thread of    *)
(* connection 1 holds its read locks                                       *)
C33_Witness ==
    /\ last.op = "lock_remap" /\ last.err = "INTERNAL"
    /\ lk.th[3].pc = "idle" /\ lk.th[3].lydmods /\ lk.th[3].mode = "READ"
    /\ lk.th[1].pc = "held"
    /\ main.lock.readers = 1
    /\ main.lydmods_lock = 0

(***************************************************************************)
(* The request processor (request_processor.c).  rp holds the context      *)
(* rp_ctx_t, the position of every worker thread of the pool (w) and the   *)
(* sessions (sess).  A request in request_queue is the id of its session;  *)
(* 0 is the empty request of rp_cleanup.  Every region a thread runs with  *)
(* request_queue_mutex or msg_count_mutex held is one step.                *)
(***************************************************************************)
\* The size of the thread pool (4 in the code), scaled down.
RP_THREAD_COUNT == 2

RP_REQ_PER_THREADS == 2

RP_THREAD_SPIN_MIN == 1000

RP_THREAD_SPIN_MAX == 1000000

\* The sessions that exist, and the calls of rp_msg_process in a run.
MaxSessions == 2

MaxCalls == 3

\* rp_init: calloc leaves every field 0; the queue is empty; the worker
\* threads are created and have not run yet.  The sessions are those that
\* rp_session_start made: no message, no stop requested.
rp_init(threads, calls) ==
    /\ rp.pc = "none"
    /\ rp' = [pc |-> "run", active_threads |-> 0, thread_spin_limit |-> 0,
              stop_requested |-> FALSE, request_queue |-> <<>>,
              w |-> [i \in 1 .. threads |-> [pc |-> "start", dequeued_prev |-> FALSE, req |-> 0]],
              sess |-> [s \in 1 .. MaxSessions |->
                          [msg_count |-> 0, stop_requested |-> FALSE, stopped |-> FALSE, cleaned |-> 0]],
              calls |-> calls]
    /\ UNCHANGED <<main, ext, lydmods, last, lk, rec>>

\* The worker thread without the increment of line 661 after its wake-up.
rp_worker_thread_execute_NoWakeCount(i) ==
    \/ /\ i \in DOMAIN rp.w /\ rp.w[i].pc = "start"
       /\ rp' = [rp EXCEPT !.active_threads = @ + 1, !.w[i].pc = "deq"]
       /\ UNCHANGED <<main, ext, lydmods, last, lk, rec>>
    \/ /\ i \in DOMAIN rp.w /\ rp.w[i].pc = "deq"
       /\ rp.request_queue # <<>>
       /\ rp' = [rp EXCEPT !.request_queue = Tail(@),
                           !.w[i] = IF Head(rp.request_queue) = 0
                                    THEN [@ EXCEPT !.pc = "exit"]
                                    ELSE [@ EXCEPT !.pc = "disp", !.req = Head(rp.request_queue)]]
       /\ UNCHANGED <<main, ext, lydmods, last, lk, rec>>
    \/ /\ i \in DOMAIN rp.w /\ rp.w[i].pc = "deq"
       /\ rp.request_queue = <<>>
       /\ rp' = [rp EXCEPT !.w[i].pc = IF rp.w[i].dequeued_prev THEN "spin" ELSE "chk"]
       /\ UNCHANGED <<main, ext, lydmods, last, lk, rec>>
    \/ /\ i \in DOMAIN rp.w /\ rp.w[i].pc = "disp"
       /\ \E s \in {rp.w[i].req} : \E n \in {IF rp.sess[s].msg_count = 0 THEN 2147483647
                                             ELSE rp.sess[s].msg_count - 1} :
             rp' = [rp EXCEPT !.sess[s].msg_count = n,
                              !.sess[s].cleaned = IF n = 0 /\ rp.sess[s].stop_requested
                                                  THEN @ + 1 ELSE @,
                              !.w[i] = [pc |-> "deq", dequeued_prev |-> TRUE, req |-> 0]]
       /\ UNCHANGED <<main, ext, lydmods, last, lk, rec>>
    \/ /\ i \in DOMAIN rp.w /\ rp.w[i].pc = "spin"
       /\ rp' = [rp EXCEPT !.w[i].pc = "chk"]
       /\ UNCHANGED <<main, ext, lydmods, last, lk, rec>>
    \/ /\ i \in DOMAIN rp.w /\ rp.w[i].pc = "chk"
       /\ rp.request_queue # <<>>
       /\ rp' = [rp EXCEPT !.w[i].pc = "deq"]
       /\ UNCHANGED <<main, ext, lydmods, last, lk, rec>>
    \/ /\ i \in DOMAIN rp.w /\ rp.w[i].pc = "chk"
       /\ rp.request_queue = <<>>
       /\ rp' = [rp EXCEPT !.active_threads = IF @ = 0 THEN 2147483647 ELSE @ - 1,
                           !.w[i].pc = "pre"]
       /\ UNCHANGED <<main, ext, lydmods, last, lk, rec>>
    \/ /\ i \in DOMAIN rp.w /\ rp.w[i].pc = "pre"
       /\ rp' = [rp EXCEPT !.w[i].pc = IF rp.stop_requested THEN "break" ELSE "wait"]
       /\ UNCHANGED <<main, ext, lydmods, last, lk, rec>>
    \/ /\ i \in DOMAIN rp.w /\ rp.w[i].pc = "woken"
       /\ rp' = [rp EXCEPT !.w[i] = [pc |-> "deq", dequeued_prev |-> FALSE, req |-> 0]]
       /\ UNCHANGED <<main, ext, lydmods, last, lk, rec>>

\* One step of worker thread i.  pc names the place the thread is at:
\* start (595), deq (604), disp (614), spin (628), chk (635), pre (654),
\* wait (inside pthread_cond_wait), woken (signalled, 660-664), exit (left
\* after an empty request, 612), break (left at the stop check, 658).
rp_worker_thread_execute(i) ==
    \/ /\ i \in DOMAIN rp.w /\ rp.w[i].pc = "start"
       /\ rp' = [rp EXCEPT !.active_threads = @ + 1, !.w[i].pc = "deq"]
       /\ UNCHANGED <<main, ext, lydmods, last, lk, rec>>
    \/ /\ i \in DOMAIN rp.w /\ rp.w[i].pc = "deq"
       /\ rp.request_queue # <<>>
       /\ rp' = [rp EXCEPT !.request_queue = Tail(@),
                           !.w[i] = IF Head(rp.request_queue) = 0
                                    THEN [@ EXCEPT !.pc = "exit"]
                                    ELSE [@ EXCEPT !.pc = "disp", !.req = Head(rp.request_queue)]]
       /\ UNCHANGED <<main, ext, lydmods, last, lk, rec>>
    \/ /\ i \in DOMAIN rp.w /\ rp.w[i].pc = "deq"
       /\ rp.request_queue = <<>>
       /\ rp' = [rp EXCEPT !.w[i].pc = IF rp.w[i].dequeued_prev THEN "spin" ELSE "chk"]
       /\ UNCHANGED <<main, ext, lydmods, last, lk, rec>>
    \/ /\ i \in DOMAIN rp.w /\ rp.w[i].pc = "disp"
       /\ \E s \in {rp.w[i].req} : \E n \in {IF rp.sess[s].msg_count = 0 THEN 2147483647
                                             ELSE rp.sess[s].msg_count - 1} :
             rp' = [rp EXCEPT !.sess[s].msg_count = n,
                              !.sess[s].cleaned = IF n = 0 /\ rp.sess[s].stop_requested
                                                  THEN @ + 1 ELSE @,
                              !.w[i] = [pc |-> "deq", dequeued_prev |-> TRUE, req |-> 0]]
       /\ UNCHANGED <<main, ext, lydmods, last, lk, rec>>
    \/ /\ i \in DOMAIN rp.w /\ rp.w[i].pc = "spin"
       /\ rp' = [rp EXCEPT !.w[i].pc = "chk"]
       /\ UNCHANGED <<main, ext, lydmods, last, lk, rec>>
    \/ /\ i \in DOMAIN rp.w /\ rp.w[i].pc = "chk"
       /\ rp.request_queue # <<>>
       /\ rp' = [rp EXCEPT !.w[i].pc = "deq"]
       /\ UNCHANGED <<main, ext, lydmods, last, lk, rec>>
    \/ /\ i \in DOMAIN rp.w /\ rp.w[i].pc = "chk"
       /\ rp.request_queue = <<>>
       /\ rp' = [rp EXCEPT !.active_threads = IF @ = 0 THEN 2147483647 ELSE @ - 1,
                           !.w[i].pc = "pre"]
       /\ UNCHANGED <<main, ext, lydmods, last, lk, rec>>
    \/ /\ i \in DOMAIN rp.w /\ rp.w[i].pc = "pre"
       /\ rp' = [rp EXCEPT !.w[i].pc = IF rp.stop_requested THEN "break" ELSE "wait"]
       /\ UNCHANGED <<main, ext, lydmods, last, lk, rec>>
    \/ /\ i \in DOMAIN rp.w /\ rp.w[i].pc = "woken"
       /\ rp' = [rp EXCEPT !.active_threads = @ + 1,
                           !.w[i] = [pc |-> "deq", dequeued_prev |-> FALSE, req |-> 0]]
       /\ UNCHANGED <<main, ext, lydmods, last, lk, rec>>

\* rp_msg_process for a message of session s.  ok is the result of
\* sr_cbuff_enqueue (it fails when the buffer cannot grow), fast tells
\* whether the last wake-up was less than RP_THREAD_SPIN_TIMEOUT ago.
\* pthread_cond_signal wakes one of the threads that wait, if there is one.
rp_msg_process(s) ==
    /\ rp.pc = "run"
    /\ rp.calls > 0
    /\ ~rp.sess[s].stopped
    /\ UNCHANGED <<main, ext, lydmods, last, lk, rec>>
    /\ \E ok \in BOOLEAN, fast \in (IF rp.active_threads = 0 THEN BOOLEAN ELSE {FALSE}) :
         \E q \in {IF ok THEN Append(rp.request_queue, s) ELSE rp.request_queue} :
           \E signal \in {rp.active_threads = 0
                          \/ (rp.active_threads # 0
                              /\ (Len(q) \div rp.active_threads) > RP_REQ_PER_THREADS
                              /\ rp.active_threads < RP_THREAD_COUNT)} :
             \E woken \in (IF signal /\ (\E i \in DOMAIN rp.w : rp.w[i].pc = "wait")
                           THEN {i \in DOMAIN rp.w : rp.w[i].pc = "wait"} ELSE {0}) :
               rp' = [rp EXCEPT
                        !.calls = @ - 1,
                        !.sess[s].msg_count = @ + 1,
                        !.request_queue = q,
                        !.thread_spin_limit =
                            IF rp.active_threads # 0 THEN @
                            ELSE IF ~fast THEN 0
                            ELSE IF @ = 0 THEN RP_THREAD_SPIN_MIN
                            ELSE IF @ < RP_THREAD_SPIN_MAX THEN @ * 2
                            ELSE @,
                        !.w = [i \in DOMAIN rp.w |->
                                 IF i = woken THEN [rp.w[i] EXCEPT !.pc = "woken"] ELSE rp.w[i]]]

\* rp_session_stop that cleans the session up whatever its msg_count is.
rp_session_stop_CleansAtOnce(s) ==
    /\ rp.pc # "none"
    /\ ~rp.sess[s].stopped
    /\ rp' = [rp EXCEPT !.sess[s] = [@ EXCEPT !.stopped = TRUE, !.cleaned = @ + 1]]
    /\ UNCHANGED <<main, ext, lydmods, last, lk, rec>>

\* rp_session_stop, called once for a session.
rp_session_stop(s) ==
    /\ rp.pc # "none"
    /\ ~rp.sess[s].stopped
    /\ rp' = [rp EXCEPT !.sess[s] =
                 IF @.msg_count > 0
                 THEN [@ EXCEPT !.stopped = TRUE, !.stop_requested = TRUE]
                 ELSE [@ EXCEPT !.stopped = TRUE, !.cleaned = @ + 1]]
    /\ UNCHANGED <<main, ext, lydmods, last, lk, rec>>

\* rp_cleanup without its pthread_cond_broadcast.
rp_cleanup_NoBroadcast ==
    \/ /\ rp.pc = "run"
       /\ \E n \in 0 .. RP_THREAD_COUNT :
            rp' = [rp EXCEPT
                     !.pc = "stopping",
                     !.stop_requested = TRUE,
                     !.request_queue = @ \o [k \in 1 .. n |-> 0]]
       /\ UNCHANGED <<main, ext, lydmods, last, lk, rec>>
    \/ /\ rp.pc = "stopping"
       /\ \A i \in DOMAIN rp.w : rp.w[i].pc \in {"exit", "break"}
       /\ rp' = [rp EXCEPT !.pc = "joined"]
       /\ UNCHANGED <<main, ext, lydmods, last, lk, rec>>

\* rp_cleanup: the stop request with the empty requests and the broadcast
\* (741-748), then the joins (751-753), which return when every worker
\* thread has left.  The result of sr_cbuff_enqueue is not looked at: n of
\* the RP_THREAD_COUNT empty requests get into the queue.
rp_cleanup ==
    \/ /\ rp.pc = "run"
       /\ \E n \in 0 .. RP_THREAD_COUNT :
            rp' = [rp EXCEPT
                     !.pc = "stopping",
                     !.stop_requested = TRUE,
                     !.request_queue = @ \o [k \in 1 .. n |-> 0],
                     !.w = [i \in DOMAIN rp.w |->
                              IF rp.w[i].pc = "wait" THEN [rp.w[i] EXCEPT !.pc = "woken"]
                              ELSE rp.w[i]]]
       /\ UNCHANGED <<main, ext, lydmods, last, lk, rec>>
    \/ /\ rp.pc = "stopping"
       /\ \A i \in DOMAIN rp.w : rp.w[i].pc \in {"exit", "break"}
       /\ rp' = [rp EXCEPT !.pc = "joined"]
       /\ UNCHANGED <<main, ext, lydmods, last, lk, rec>>

NextRp ==
    \/ rp_init(RP_THREAD_COUNT, MaxCalls)
    \/ \E i \in 1 .. RP_THREAD_COUNT : rp_worker_thread_execute(i)
    \/ \E s \in 1 .. MaxSessions : rp_msg_process(s)
    \/ \E s \in 1 .. MaxSessions : rp_session_stop(s)
    \/ rp_cleanup
    \/ \E i \in DOMAIN rp.w :
         /\ rp.w[i].pc = "wait"
         /\ rp' = [rp EXCEPT !.w[i].pc = "woken"]
         /\ UNCHANGED <<main, ext, lydmods, last, lk, rec>>

\* The scheduler runs every worker thread that can take a step, and the
\* thread that called rp_cleanup goes on to its joins.
SpecRp ==
    /\ Init
    /\ [][NextRp]_vars
    /\ \A i \in 1 .. RP_THREAD_COUNT : WF_vars(rp_worker_thread_execute(i))
    /\ WF_vars(rp.pc = "stopping" /\ rp_cleanup)

\* C35: a request that rp_msg_process put into the queue while no stop was
\* requested is eventually taken out of the queue by a worker thread, with
\* the worker threads scheduled fairly and without any further call: from
\* every state with a request waiting, a state is reached where the queue
\* is empty (or rp_cleanup has begun).
C35_AcceptedIsDispatched ==
    (rp.pc = "run" /\ rp.request_queue # <<>>)
        ~> (rp.pc # "run" \/ rp.request_queue = <<>>)

\* C36: rp_cleanup terminates: once it has set stop_requested, put the
\* empty requests into the queue and broadcast, every worker thread leaves
\* its loop, wherever it was, and the joins return.
C36_CleanupTerminates ==
    (rp.pc = "stopping") ~> (rp.pc = "joined" /\ \A i \in DOMAIN rp.w : rp.w[i].pc \in {"exit", "break"})

\* rp_cleanup has returned from its joins; one worker thread left at the
\* stop check before its wait, another after an empty request.
C36_Witness ==
    /\ rp.pc = "joined"
    /\ \E i \in DOMAIN rp.w : rp.w[i].pc = "break"
    /\ \E i \in DOMAIN rp.w : rp.w[i].pc = "exit"

C38_CleanupOnceAfterLast ==
    rp.pc # "none" =>
        \A s \in DOMAIN rp.sess :
            /\ rp.sess[s].cleaned \in {0, 1}
            /\ rp.sess[s].cleaned = 1 =>
                  /\ rp.sess[s].stopped
                  /\ \A k \in DOMAIN rp.request_queue : rp.request_queue[k] # s
                  /\ \A i \in DOMAIN rp.w : ~(rp.w[i].pc = "disp" /\ rp.w[i].req = s)
            /\ rp.sess[s].stopped /\ rp.sess[s].msg_count = 0 => rp.sess[s].cleaned = 1

\* Both sessions were stopped with messages outstanding and were cleaned
\* up by the worker threads that finished their last messages.
C38_Witness ==
    /\ rp.pc # "none"
    /\ \A s \in DOMAIN rp.sess : rp.sess[s].stop_requested /\ rp.sess[s].cleaned = 1
    /\ rp.calls = 0

\* C39: the msg_count of every session equals the number of its requests
\* that wait in the request queue or are being dispatched by a worker
\* thread.
C39_MsgCountIsOutstanding ==
    rp.pc # "none" =>
        \A s \in DOMAIN rp.sess :
            rp.sess[s].msg_count
              = Cardinality({k \in DOMAIN rp.request_queue : rp.request_queue[k] = s})
                + Cardinality({i \in DOMAIN rp.w : rp.w[i].pc = "disp" /\ rp.w[i].req = s})

(***************************************************************************)
(* A long run of rp_msg_process calls for one session with one worker      *)
(* thread, for the spin limit.                                             *)
(***************************************************************************)
MaxSpinCalls == 11

NextSpin ==
    \/ rp_init(1, MaxSpinCalls)
    \/ rp_worker_thread_execute(1)
    \/ rp_msg_process(1)
    \/ rp_session_stop(1)
    \/ rp_cleanup

SpecSpin == Init /\ [][NextSpin]_vars

\* C40: thread_spin_limit is 0 or lies between RP_THREAD_SPIN_MIN and
\* RP_THREAD_SPIN_MAX, whatever calls of rp_msg_process were made and
\* whenever the wake-ups happened.
C40_SpinLimitInRange ==
    rp.pc # "none" =>
        \/ rp.thread_spin_limit = 0
        \/ rp.thread_spin_limit \in RP_THREAD_SPIN_MIN .. RP_THREAD_SPIN_MAX

====
